---- MODULE Spec2Model ----
(***************************************************************************)
(* The LinkedIn message analysis pipeline of main.py: the loader, the      *)
(* direction classifier, the thread reconstructor, the outbound analyser,  *)
(* the sales classifier and the pattern clusterer, as one state machine    *)
(* whose actions are the pipeline's stages in the order main() calls them. *)
(*                                                                         *)
(* A DataFrame is a sequence of records (its rows, in frame order); the    *)
(* row label pandas calls the index is the field "index".  Labels and      *)
(* the positions of a RangeIndex are 0-based as in pandas, so the row at   *)
(* sequence position q of a freshly built frame has label q-1.  A value    *)
(* that may be missing (None, NaN) is a sequence: <<>> when missing,       *)
(* <<v>> otherwise.  Text is a sequence of one-character strings.          *)
(***************************************************************************)
EXTENDS Integers, Sequences, FiniteSets, TLC

VARIABLES
    columns,              \* the header of the CSV file, as it is written
    raw,                  \* the rows of the CSV file, in file order
    df,                   \* the message table the stages pass along
    user_name,            \* the owner classify_message_direction settled on
    conversation_summary, \* the table get_conversation_summary returns
    conversation_stats,   \* what analyze_response_patterns returns
    analysis_results,     \* what analyze_conversation_flow returns
    top_messages,         \* find_top_performing_messages: the labels of its rows
    outbound_performance, \* the table analyze_outbound_performance returns
    sales_with_performance, \* find_similar_sales_patterns: the merged table
    sales_messages,       \* find_similar_sales_patterns: the rows it clusters
    processed_indices,    \* find_similar_sales_patterns: rows already grouped
    cursor,               \* find_similar_sales_patterns: the outer loop's i
    all_groups,           \* every similar_messages list the loop has built
    message_groups,       \* find_similar_sales_patterns: the groups kept
    sales_performance,    \* what analyze_sales_performance returns
    sales_insights,       \* what get_sales_insights returns
    pc                    \* the stage main() has reached

vars == <<columns, raw, df, user_name, conversation_summary,
          conversation_stats, analysis_results, top_messages, outbound_performance, sales_with_performance,
          sales_messages, processed_indices, cursor, all_groups,
          message_groups, sales_performance, sales_insights, pc>>

\* What the aggregators of main()'s conversation insights write.
insightVars == <<conversation_summary, conversation_stats, analysis_results,
                 top_messages>>

\* What the last two calls of main()'s sales analysis write.
salesVars == <<sales_performance, sales_insights>>

\* What find_similar_sales_patterns alone writes.
clusterVars == <<sales_with_performance, sales_messages, processed_indices,
                 cursor, all_groups, message_groups>>

-----------------------------------------------------------------------------
(* Bounds of the model. *)

\* The most rows of a CSV file of the general input family.
MaxRows == 3
\* DATE values are whole ticks 0..MaxTick after the epoch.
MaxTick == 2
\* Seconds in one tick.
TickSeconds == 3600

-----------------------------------------------------------------------------
(* Values *)

\* pandas' NaT: what an unparseable DATE is coerced to.
NaT == -1
\* A DATE cell that pd.to_datetime cannot parse.
BadDate == -1

Persons == {"me", "alice", "bob"}
\* An empty cell, which pandas reads as NaN: of the FROM and TO columns, of
\* the CONVERSATION ID column and of the CONTENT column.
NoRecipient == "<NaN>"
NoSender == "<NaN>"
NoThread == 0
NoContent == <<"<NaN>">>
Threads == {1, 2}
Dates == (0..MaxTick) \cup {BadDate}

None == <<>>
Some(v) == <<v>>

-----------------------------------------------------------------------------
(* Sorting *)

\* pandas' order of a timestamp column: ascending, NaT last.
TimestampLess(a, b) ==
    IF a = NaT THEN FALSE
    ELSE IF b = NaT THEN TRUE
    ELSE a < b

\* A sort on the thread alone, the timestamp forgotten.
ThreadOnlyLess(r, s) == r.thread_id < s.thread_id

\* The order of sort_values(['thread_id', 'timestamp']).
ThreadTimestampLess(r, s) ==
    \/ r.thread_id < s.thread_id
    \/ r.thread_id = s.thread_id /\ TimestampLess(r.timestamp, s.timestamp)

\* x put into the sorted sequence s before every row that is not less: the
\* rows that compare equal come out in the reverse of their order.
RECURSIVE InsertBeforeEqual(_, _)
InsertBeforeEqual(s, x) ==
    IF s = <<>> THEN <<x>>
    ELSE IF ThreadTimestampLess(s[Len(s)], x)
         THEN Append(s, x)
         ELSE Append(InsertBeforeEqual(SubSeq(s, 1, Len(s) - 1), x), s[Len(s)])

\* x put into the sorted sequence s behind every row that is not greater.
RECURSIVE InsertStable(_, _)
InsertStable(s, x) ==
    IF s = <<>> THEN <<x>>
    ELSE IF ThreadTimestampLess(x, s[Len(s)])
         THEN Append(InsertStable(SubSeq(s, 1, Len(s) - 1), x), s[Len(s)])
         ELSE Append(s, x)

\* A stable sort: rows that compare equal keep their order.
RECURSIVE SortByThreadTimestamp(_)
SortByThreadTimestamp(s) ==
    IF s = <<>> THEN <<>>
    ELSE InsertStable(SortByThreadTimestamp(SubSeq(s, 1, Len(s) - 1)), s[Len(s)])

-----------------------------------------------------------------------------
(* Text *)

UpperLetters == <<"A", "B", "C", "D", "E", "F", "G", "H", "I", "J", "K", "L", "M", "N", "O", "P", "Q", "R", "S", "T", "U", "V", "W", "X", "Y", "Z">>
LowerLetters == <<"a", "b", "c", "d", "e", "f", "g", "h", "i", "j", "k", "l", "m", "n", "o", "p", "q", "r", "s", "t", "u", "v", "w", "x", "y", "z">>
Digits == {"0", "1", "2", "3", "4", "5", "6", "7", "8", "9"}
Whitespace == {" ", "\t", "\n", "\r", "\f"}

\* str.lower(), on the letters A to Z.
LowerChar(c) ==
    IF \E i \in DOMAIN UpperLetters : UpperLetters[i] = c
    THEN LowerLetters[CHOOSE i \in DOMAIN UpperLetters : UpperLetters[i] = c]
    ELSE c

Lower(text) == [i \in DOMAIN text |-> LowerChar(text[i])]

\* str.strip(): the text without its leading and trailing whitespace.
Strip(text) ==
    LET solid == {i \in DOMAIN text : text[i] \notin Whitespace}
    IN IF solid = {} THEN <<>>
       ELSE LET lo == CHOOSE i \in solid : \A j \in solid : i <= j
                hi == CHOOSE i \in solid : \A j \in solid : j <= i
            IN SubSeq(text, lo, hi)

\* Whether word stands in text from position i on.
OccursAt(text, word, i) ==
    /\ i >= 1
    /\ i + Len(word) - 1 <= Len(text)
    /\ \A k \in DOMAIN word : text[i + k - 1] = word[k]

\* word in text
Contains(text, word) ==
    \E i \in 1..(Len(text) - Len(word) + 1) : OccursAt(text, word, i)

\* any(word in text for word in words)
ContainsAny(text, words) == \E k \in DOMAIN words : Contains(text, words[k])

\* sum(1 for word in words if word in text)
CountContained(text, words) ==
    Cardinality({k \in DOMAIN words : Contains(text, words[k])})

\* Whether one of words stands in text from position i on.
AnyOccursAt(text, words, i) == \E k \in DOMAIN words : OccursAt(text, words[k], i)

\* Whether text[a..b-1] is whitespace only (matched by \s*).
WhitespaceRun(text, a, b) == \A k \in a..(b - 1) : text[k] \in Whitespace

\* Whether text[a..b-1] is one digit or more (matched by \d+).
DigitRun(text, a, b) == a < b /\ \A k \in a..(b - 1) : text[k] \in Digits

-----------------------------------------------------------------------------
(* parser.py *)

ToDatetime(date) == IF date = BadDate THEN NaT ELSE date * TickSeconds

\* read_csv gives the rows a RangeIndex; the DATE column is coerced.
ReadRows(rows) ==
    [q \in DOMAIN rows |->
        [index     |-> q - 1,
         thread_id |-> rows[q].thread_id,
         sender    |-> rows[q].sender,
         recipient |-> rows[q].recipient,
         timestamp |-> ToDatetime(rows[q].date),
         content   |-> rows[q].content]]

\* dropna(subset=['thread_id', 'sender', 'content']); the rows kept keep
\* their labels.
DropNa(rows) ==
    SelectSeq(rows, LAMBDA r : /\ r.thread_id # NoThread
                               /\ r.sender # NoSender
                               /\ r.content # NoContent)

\* str.upper(), on the letters a to z.
UpperChar(c) ==
    IF \E i \in DOMAIN LowerLetters : LowerLetters[i] = c
    THEN UpperLetters[CHOOSE i \in DOMAIN LowerLetters : LowerLetters[i] = c]
    ELSE c

Upper(text) == [i \in DOMAIN text |-> UpperChar(text[i])]

\* df.columns.str.strip().str.upper()
NormalizedColumns(header) ==
    {Upper(Strip(header[k])) : k \in DOMAIN header}

ConversationIdColumn == <<"C", "O", "N", "V", "E", "R", "S", "A", "T", "I", "O", "N", " ", "I", "D">>
FromColumn == <<"F", "R", "O", "M">>
ToColumn == <<"T", "O">>
DateColumn == <<"D", "A", "T", "E">>
ContentColumn == <<"C", "O", "N", "T", "E", "N", "T">>

required_columns ==
    <<ConversationIdColumn, FromColumn, ToColumn, DateColumn, ContentColumn>>

\* A validation that accepts every header.
AcceptAnyHeader(header) == TRUE

\* validate_csv_structure: every required column is in the normalized
\* header (a file that cannot be read has no header at all).
ValidCsvStructure(header) ==
    \A k \in DOMAIN required_columns :
        required_columns[k] \in NormalizedColumns(header)

\* main(), step 1: exit(1) when the validation fails, exit(0) after it
\* with --validate-only.
ValidateCsvStructure ==
    /\ pc = "start"
    /\ IF ValidCsvStructure(columns)
       THEN \E validate_only \in BOOLEAN :
                pc' = IF validate_only THEN "validated_only" ELSE "validated"
       ELSE pc' = "rejected"
    /\ UNCHANGED <<insightVars, salesVars, columns, raw, df, user_name, outbound_performance, clusterVars>>

\* The columns load_messages_csv cannot do without: df["timestamp"] and
\* the dropna subset raise KeyError when one is not in the header.
LoadableColumns(header) ==
    {ConversationIdColumn, FromColumn, DateColumn, ContentColumn}
        \subseteq NormalizedColumns(header)

LoadMessagesCsv ==
    /\ pc = "validated"
    /\ IF LoadableColumns(columns)
       THEN /\ df' = SortByThreadTimestamp(DropNa(ReadRows(raw)))
            /\ pc' = "loaded"
       ELSE \* main() catches the KeyError and exits
            /\ pc' = "error"
            /\ UNCHANGED df
    /\ UNCHANGED <<insightVars, salesVars, columns, raw, user_name, outbound_performance, clusterVars>>

-----------------------------------------------------------------------------
(* direction.py *)

SentBy(frame, p) == Cardinality({q \in DOMAIN frame : frame[q].sender = p})

\* An owner made up for the frame that has no sender.
OwnerOrDefault(frame) ==
    IF frame = <<>> THEN {"me"}
    ELSE {p \in Persons :
            /\ SentBy(frame, p) > 0
            /\ \A o \in Persons : SentBy(frame, o) <= SentBy(frame, p)}

\* value_counts().index[0]: a sender with the most rows; which one of
\* several with the same count comes first is not specified.  There is
\* none when the frame has no row, and index[0] raises IndexError.
IdentifyUserProfile(frame) ==
    {p \in Persons :
        /\ SentBy(frame, p) > 0
        /\ \A o \in Persons : SentBy(frame, o) <= SentBy(frame, p)}

DirectionOf(sender, owner) == IF sender = owner THEN "outbound" ELSE "inbound"

\* The sender as the contact of every row.
SenderAsContact(row, owner) == row.sender

\* row['recipient'] if row['sender'] == user_name else row['sender']
ContactPerson(row, owner) ==
    IF row.sender = owner THEN row.recipient ELSE row.sender

\* The two column assignments of classify_message_direction: a column
\* the frame already has is overwritten.
ClassifiedFrame(frame, owner) ==
    [q \in DOMAIN frame |->
        [direction |-> DirectionOf(frame[q].sender, owner),
         contact_person |-> ContactPerson(frame[q], owner)] @@ frame[q]]

\* user_name is the parameter of the same name, "" standing for None, and
\* afterwards the owner the function settled on.
ClassifyMessageDirection ==
    /\ pc = "loaded"
    /\ IF user_name = "" /\ IdentifyUserProfile(df) = {}
       THEN \* sender_counts.index[0] raises IndexError
            /\ pc' = "error"
            /\ UNCHANGED <<df, user_name>>
       ELSE \E owner \in (IF user_name = "" THEN IdentifyUserProfile(df)
                          ELSE {user_name}) :
            /\ user_name' = owner
            /\ df' = ClassifiedFrame(df, owner)
            /\ pc' = "directed"
    /\ UNCHANGED <<insightVars, salesVars, columns, raw, outbound_performance, clusterVars>>

-----------------------------------------------------------------------------
(* analyzer.py *)

\* The positions of a thread's rows in the frame, in frame order.
ThreadPositions(frame, t) == {q \in DOMAIN frame : frame[q].thread_id = t}

\* Whether the row at position q is the first of its thread's rows.
IsThreadHead(frame, q) ==
    \A r \in ThreadPositions(frame, frame[q].thread_id) : q <= r

\* The row before position q among its thread's rows (q is not the head).
PrevInThread(frame, q) ==
    CHOOSE r \in ThreadPositions(frame, frame[q].thread_id) :
        /\ r < q
        /\ \A s \in ThreadPositions(frame, frame[q].thread_id) : s < q => s <= r

\* The row's own sender in the place of the thread's first.
OwnSender(frame, q) == frame[q].sender

\* The sender of the first row of the thread of the row at position q.
FirstMessageSender(frame, q) ==
    LET t == frame[q].thread_id
        h == CHOOSE r \in ThreadPositions(frame, t) : IsThreadHead(frame, r)
    IN frame[h].sender

\* time_diff.total_seconds() / 3600, kept as the fraction it is; the
\* difference with a NaT is NaT and its total_seconds() NaN.
ResponseTimeHours(later, earlier) ==
    IF later = NaT \/ earlier = NaT THEN None
    ELSE Some([num |-> later - earlier, den |-> 3600])

\* A comparison with every earlier row of the thread, not the one before.
IsReplyToAnyEarlier(frame, q) ==
    \E r \in ThreadPositions(frame, frame[q].thread_id) :
        r < q /\ frame[q].sender # frame[r].sender

IsReply(frame, q) ==
    /\ ~IsThreadHead(frame, q)
    /\ frame[q].sender # frame[PrevInThread(frame, q)].sender

\* The sender of the frame's first row, whatever its direction.
FirstRowSender(frame) == frame[1].sender

\* user_name = df[df['direction'] == 'outbound']['sender'].iloc[0]
FirstOutboundSender(frame) ==
    LET q == CHOOSE r \in DOMAIN frame :
                /\ frame[r].direction = "outbound"
                /\ \A s \in DOMAIN frame : frame[s].direction = "outbound" => r <= s
    IN frame[q].sender

\* The columns the function initialises and fills in, whatever the frame
\* held in them before.
DetectedRow(frame, q, owner) ==
    [is_first_message      |-> IsThreadHead(frame, q),
     is_outbound_initiated |-> (FirstMessageSender(frame, q) = owner),
     is_reply              |-> IsReply(frame, q),
     previous_sender       |-> IF IsReply(frame, q)
                               THEN Some(frame[PrevInThread(frame, q)].sender)
                               ELSE None,
     response_time_hours   |-> IF IsReply(frame, q)
                               THEN ResponseTimeHours(frame[q].timestamp,
                                        frame[PrevInThread(frame, q)].timestamp)
                               ELSE None]
    @@ frame[q]

\* What detect_replies_and_response_times returns for a frame that has an
\* outbound row.
DetectedFrame(frame) ==
    LET sorted == SortByThreadTimestamp(frame)
    IN [q \in DOMAIN sorted |->
           DetectedRow(sorted, q, FirstOutboundSender(sorted))]

DetectRepliesAndResponseTimes ==
    /\ pc = "directed"
    /\ LET sorted == SortByThreadTimestamp(df)
       IN IF \A q \in DOMAIN sorted : sorted[q].direction # "outbound"
          THEN \* .iloc[0] of an empty selection raises IndexError
               /\ pc' = "error"
               /\ UNCHANGED df
          ELSE /\ df' = DetectedFrame(df)
               /\ pc' = "detected"
    /\ UNCHANGED <<insightVars, salesVars, columns, raw, user_name, outbound_performance, clusterVars>>

-----------------------------------------------------------------------------
(* The aggregators: direction.py and analyzer.py *)

\* Series.unique(): the values in the order they first appear.
RECURSIVE UniqueInOrder(_)
UniqueInOrder(values) ==
    IF values = <<>> THEN <<>>
    ELSE LET before == UniqueInOrder(SubSeq(values, 1, Len(values) - 1))
             last == values[Len(values)]
         IN IF \E k \in DOMAIN before : before[k] = last THEN before
            ELSE Append(before, last)

\* df[df['contact_person'] == contact]: a comparison with NaN is False.
ContactPositions(frame, contact) ==
    IF contact = NoRecipient THEN {}
    ELSE {q \in DOMAIN frame : frame[q].contact_person = contact}

\* Series.min() and Series.max() of timestamps: NaT is skipped, and NaT is
\* the result when nothing is left.
MinTimestamp(stamps) ==
    IF stamps \ {NaT} = {} THEN NaT
    ELSE CHOOSE t \in stamps \ {NaT} : \A u \in stamps \ {NaT} : t <= u

MaxTimestamp(stamps) ==
    IF stamps \ {NaT} = {} THEN NaT
    ELSE CHOOSE t \in stamps \ {NaT} : \A u \in stamps \ {NaT} : u <= t

\* The inbound count over the count of all the contact's messages.
RateOfTotal(inbound, outbound) ==
    IF inbound + outbound > 0
    THEN [num |-> inbound, den |-> inbound + outbound]
    ELSE [num |-> 0, den |-> 1]

\* inbound_messages / outbound_messages if outbound_messages > 0 else 0
ResponseRate(inbound, outbound) ==
    IF outbound > 0 THEN [num |-> inbound, den |-> outbound]
    ELSE [num |-> 0, den |-> 1]

\* The entry of contact_stats for one contact.
ContactStats(frame, contact) ==
    LET rows == ContactPositions(frame, contact)
        outbound == Cardinality({q \in rows : frame[q].direction = "outbound"})
        inbound == Cardinality({q \in rows : frame[q].direction = "inbound"})
    IN [contact_person    |-> contact,
        total_messages    |-> Cardinality(rows),
        outbound_messages |-> outbound,
        inbound_messages  |-> inbound,
        thread_count      |-> Cardinality({frame[q].thread_id : q \in rows}),
        has_response      |-> inbound > 0,
        first_contact     |-> MinTimestamp({frame[q].timestamp : q \in rows}),
        last_contact      |-> MaxTimestamp({frame[q].timestamp : q \in rows}),
        response_rate     |-> ResponseRate(inbound, outbound)]

\* Whether sort_values('last_contact', ascending=False) must put a before
\* b: a later last contact first, NaT last.
LastContactFirst(a, b) ==
    a.last_contact # NaT /\ (b.last_contact = NaT \/ a.last_contact > b.last_contact)

\* get_conversation_summary: the contacts' entries sorted by last contact,
\* the latest first.  The sort on one column is not stable, so entries
\* with the same last contact may come in any order.
GetConversationSummary(frame) ==
    LET contacts == UniqueInOrder([q \in DOMAIN frame |-> frame[q].contact_person])
        stats == [k \in DOMAIN contacts |-> ContactStats(frame, contacts[k])]
        n == Len(stats)
    IN {[i \in 1..n |-> stats[f[i]]] :
            f \in {g \in [1..n -> 1..n] :
                    /\ \A i, j \in 1..n : i # j => g[i] # g[j]
                    /\ \A i, j \in 1..n :
                          i < j => ~LastContactFirst(stats[g[j]], stats[g[i]])}}

RECURSIVE SumOf(_)
SumOf(numbers) ==
    IF numbers = <<>> THEN 0 ELSE numbers[1] + SumOf(Tail(numbers))

\* Series.mean(): NaN (None) for an empty series.
MeanOf(numbers) ==
    IF numbers = <<>> THEN None
    ELSE Some([num |-> SumOf(numbers), den |-> Len(numbers)])

\* a / b if b > 0 else 0
RatioOrZero(a, b) ==
    IF b > 0 THEN [num |-> a, den |-> b] ELSE [num |-> 0, den |-> 1]

\* analyze_response_patterns, on the summary of a frame that is not empty.
AnalyzeResponsePatterns(summary) ==
    LET total_contacts == Len(summary)
        responded == {k \in DOMAIN summary : summary[k].has_response}
        ghosted == {k \in DOMAIN summary :
                      summary[k].outbound_messages > 0
                          /\ summary[k].inbound_messages = 0}
        totals == [k \in DOMAIN summary |-> summary[k].total_messages]
        outbounds == [k \in DOMAIN summary |-> summary[k].outbound_messages]
        inbounds == [k \in DOMAIN summary |-> summary[k].inbound_messages]
        most == CHOOSE k \in DOMAIN summary :
                    /\ \A j \in DOMAIN summary : totals[j] <= totals[k]
                    /\ \A j \in 1..(k - 1) : totals[j] < totals[k]
    IN [total_contacts           |-> total_contacts,
        contacts_who_responded   |-> Cardinality(responded),
        contacts_who_ghosted     |-> Cardinality(ghosted),
        overall_response_rate    |-> RatioOrZero(Cardinality(responded), total_contacts),
        weighted_response_rate   |-> RatioOrZero(SumOf(inbounds), SumOf(outbounds)),
        avg_messages_per_contact |-> MeanOf(totals),
        avg_outbound_per_contact |-> MeanOf(outbounds),
        most_active_contact      |-> summary[most].contact_person,
        ghosted_contacts         |->
            [k \in DOMAIN SelectSeq(summary, LAMBDA r :
                    r.outbound_messages > 0 /\ r.inbound_messages = 0) |->
                SelectSeq(summary, LAMBDA r :
                    r.outbound_messages > 0 /\ r.inbound_messages = 0)[k].contact_person]]

\* df['content'].str.len() of the rows with a direction, in frame order.
LengthsOf(frame, direction) ==
    LET rows == SelectSeq(frame, LAMBDA r : r.direction = direction)
    IN [k \in DOMAIN rows |-> Len(rows[k].content)]

\* analyze_conversation_flow; the response times are fractions over 3600.
AnalyzeConversationFlow(frame) ==
    LET replies == SelectSeq(frame, LAMBDA r : r.is_reply)
        firsts == SelectSeq(frame, LAMBDA r : r.is_first_message)
        timed == SelectSeq(replies, LAMBDA r : r.response_time_hours # None)
        response_times == [k \in DOMAIN timed |-> timed[k].response_time_hours[1].num]
        quick == SelectSeq(response_times, LAMBDA t : t < 3600)
    IN [total_messages         |-> Len(frame),
        total_replies          |-> Len(replies),
        total_first_messages   |-> Len(firsts),
        reply_rate             |-> RatioOrZero(Len(replies), Len(firsts)),
        avg_response_time_hours |->
            IF Len(response_times) > 0
            THEN [num |-> SumOf(response_times), den |-> 3600 * Len(response_times)]
            ELSE [num |-> 0, den |-> 1],
        quick_response_count   |-> Len(quick),
        quick_response_rate    |-> RatioOrZero(Len(quick), Len(response_times)),
        outbound_message_count |-> Len(LengthsOf(frame, "outbound")),
        inbound_message_count  |-> Len(LengthsOf(frame, "inbound")),
        outbound_avg_length    |-> MeanOf(LengthsOf(frame, "outbound")),
        inbound_avg_length     |-> MeanOf(LengthsOf(frame, "inbound")),
        conversation_starters  |->
            Len(SelectSeq(firsts, LAMBDA r : r.direction = "outbound"))]

\* find_top_performing_messages: limit = 10
TopLimit == 10

\* outbound_with_replies: the positions of the outbound rows whose
\* thread_id is that of some row with is_reply == True.
OutboundWithReplies(frame) ==
    {q \in DOMAIN frame :
        /\ frame[q].direction = "outbound"
        /\ \E r \in DOMAIN frame :
              frame[r].is_reply /\ frame[r].thread_id = frame[q].thread_id}

\* The labels of the rows nlargest(limit, 'performance_score') may keep:
\* all of outbound_with_replies when it has at most limit rows, and else
\* limit of them, which ones being decided by a score over the sentiment
\* and the word counts, columns that are not modelled.
FindTopPerformingMessages(frame) ==
    LET candidates == OutboundWithReplies(frame)
    IN {{frame[q].index : q \in kept} :
           kept \in {some \in SUBSET candidates :
                        \/ some = candidates /\ Cardinality(candidates) <= TopLimit
                        \/ Cardinality(some) = TopLimit}}

\* main(), "Get conversation insights": the aggregators, each on the
\* frame detect_replies_and_response_times returned.
GetConversationInsights ==
    /\ pc = "detected"
    /\ \E summary \in GetConversationSummary(df) :
        /\ conversation_summary' = summary
        /\ conversation_stats' = AnalyzeResponsePatterns(summary)
    /\ analysis_results' = AnalyzeConversationFlow(df)
    /\ top_messages' \in FindTopPerformingMessages(df)
    /\ pc' = "insights"
    /\ UNCHANGED <<columns, raw, df, user_name, outbound_performance, clusterVars,
                   salesVars>>

-----------------------------------------------------------------------------
(* outbound_analyzer.py *)

\* A selection on the direction alone.
AllOutboundPositions(frame) ==
    {q \in DOMAIN frame : frame[q].direction = "outbound"}

\* outbound_df: the positions of the owner's rows in threads the owner began.
OutboundPositions(frame) ==
    {q \in DOMAIN frame :
        frame[q].direction = "outbound" /\ frame[q].is_outbound_initiated}

\* Comparison of two timestamps with >: False when either is NaT.
TimestampAfter(a, b) == a # NaT /\ b # NaT /\ a > b

\* The comparison of line 42 with >= in the place of >.
ResponsesNotStrict(frame, q) ==
    {r \in DOMAIN frame :
        /\ frame[r].thread_id = frame[q].thread_id
        /\ frame[r].timestamp # NaT /\ frame[q].timestamp # NaT
        /\ frame[r].timestamp >= frame[q].timestamp
        /\ frame[r].direction = "inbound"}

\* The later inbound rows that no other outbound row of the thread comes
\* before: a response credited to the last message before it alone.
ResponsesToLastOnly(frame, q) ==
    {r \in DOMAIN frame :
        /\ frame[r].thread_id = frame[q].thread_id
        /\ TimestampAfter(frame[r].timestamp, frame[q].timestamp)
        /\ frame[r].direction = "inbound"
        /\ ~\E s \in DOMAIN frame :
              /\ frame[s].thread_id = frame[q].thread_id
              /\ frame[s].direction = "outbound"
              /\ TimestampAfter(frame[s].timestamp, frame[q].timestamp)
              /\ TimestampAfter(frame[r].timestamp, frame[s].timestamp)}

\* responses: the inbound rows of the thread with a later timestamp.
Responses(frame, q) ==
    {r \in DOMAIN frame :
        /\ frame[r].thread_id = frame[q].thread_id
        /\ TimestampAfter(frame[r].timestamp, frame[q].timestamp)
        /\ frame[r].direction = "inbound"}

\* responses.iloc[0] after sort_values('timestamp'): a row with the least
\* timestamp; the sort on one column is not stable, so when several rows
\* share that timestamp any of them may come first.
FirstResponses(frame, q) ==
    {r \in Responses(frame, q) :
        \A s \in Responses(frame, q) : frame[r].timestamp <= frame[s].timestamp}

\* analyze_outbound_performance: the word lists of the message_type rules.
ThankYouWords ==
    <<<<"t", "h", "a", "n", "k", "s">>,
      <<"t", "h", "a", "n", "k", " ", "y", "o", "u">>>>
GreetingWords ==
    <<<<"h", "i", " ">>,
      <<"h", "e", "l", "l", "o">>,
      <<"h", "e", "y">>>>
FollowUpWords ==
    <<<<"f", "o", "l", "l", "o", "w", " ", "u", "p">>,
      <<"f", "o", "l", "l", "o", "w", "i", "n", "g", " ", "u", "p">>>>
OpportunityWords ==
    <<<<"o", "p", "p", "o", "r", "t", "u", "n", "i", "t", "y">>,
      <<"p", "o", "s", "i", "t", "i", "o", "n">>,
      <<"r", "o", "l", "e">>,
      <<"j", "o", "b">>>>
ConnectionWords ==
    <<<<"c", "o", "n", "n", "e", "c", "t">>,
      <<"c", "o", "n", "n", "e", "c", "t", "i", "o", "n">>,
      <<"n", "e", "t", "w", "o", "r", "k">>>>

\* The tests of the rules, in the order of the if / elif chain.  The
\* question rule looks for '?' in the content as it is written, the
\* others for their words in the lower-cased content.
ThankYouRule(content) == ContainsAny(Lower(content), ThankYouWords)
GreetingRule(content) == ContainsAny(Lower(content), GreetingWords)
QuestionRule(content) == Contains(content, <<"?">>)
FollowUpRule(content) == ContainsAny(Lower(content), FollowUpWords)
OpportunityRule(content) == ContainsAny(Lower(content), OpportunityWords)
ConnectionRule(content) == ContainsAny(Lower(content), ConnectionWords)

\* A chain that tests for the question mark first.
QuestionMarkFirst(content) ==
    IF QuestionRule(content) THEN "question"
    ELSE IF ThankYouRule(content) THEN "thank_you"
    ELSE IF GreetingRule(content) THEN "greeting"
    ELSE IF FollowUpRule(content) THEN "follow_up"
    ELSE IF OpportunityRule(content) THEN "opportunity_inquiry"
    ELSE IF ConnectionRule(content) THEN "connection_request"
    ELSE "other"

\* message_type
MessageType(content) ==
    IF ThankYouRule(content) THEN "thank_you"
    ELSE IF GreetingRule(content) THEN "greeting"
    ELSE IF QuestionRule(content) THEN "question"
    ELSE IF FollowUpRule(content) THEN "follow_up"
    ELSE IF OpportunityRule(content) THEN "opportunity_inquiry"
    ELSE IF ConnectionRule(content) THEN "connection_request"
    ELSE "other"


\* The record built for the row at position q, first_response being row r
\* (r = 0 when there is no response).
OutboundRecord(frame, q, r) ==
    [message_id    |-> frame[q].index,
     thread_id     |-> frame[q].thread_id,
     timestamp     |-> frame[q].timestamp,
     content       |-> frame[q].content,
     got_response  |-> Responses(frame, q) # {},
     response_time_hours |->
         IF Responses(frame, q) # {}
         THEN Some([num |-> frame[r].timestamp - frame[q].timestamp, den |-> 3600])
         ELSE None,
     responder     |-> IF Responses(frame, q) # {} THEN Some(frame[r].sender)
                       ELSE None,
     is_conversation_starter |->
         frame[q].is_first_message /\ frame[q].is_outbound_initiated,
     message_type  |-> MessageType(frame[q].content)]

\* The rows of a frame at the positions of a set, in frame order.
RECURSIVE PositionsInOrder(_)
PositionsInOrder(set) ==
    IF set = {} THEN <<>>
    ELSE LET m == CHOOSE x \in set : \A y \in set : y <= x
         IN Append(PositionsInOrder(set \ {m}), m)

\* Every table the loop over outbound_df can build for the first k rows.
RECURSIVE OutboundTables(_, _, _)
OutboundTables(frame, order, k) ==
    IF k = 0 THEN {<<>>}
    ELSE LET q == order[k]
             firsts == IF Responses(frame, q) = {} THEN {0}
                       ELSE FirstResponses(frame, q)
         IN {Append(t, OutboundRecord(frame, q, r)) :
                t \in OutboundTables(frame, order, k - 1), r \in firsts}

AnalyzeOutboundPerformance ==
    /\ pc = "insights"
    /\ LET order == PositionsInOrder(OutboundPositions(df))
       IN IF order = <<>>
          THEN \* pd.DataFrame([]) has no 'got_response' column: KeyError
               /\ pc' = "error"
               /\ UNCHANGED outbound_performance
          ELSE /\ outbound_performance' \in OutboundTables(df, order, Len(order))
               /\ pc' = "outbound"
    /\ UNCHANGED <<insightVars, salesVars, columns, raw, df, user_name, clusterVars>>

\* The sentiment polarity is a multiple of 1/SentimentSteps in [-1, 1].
SentimentSteps == 2
\* The most question marks and the most words of a scored message.
MaxQuestions == 12
MaxWords == 2

\* The columns of an outbound record the performance score is computed from.
ScoreInputs ==
    [got_response       : BOOLEAN,
     sentiment_polarity : {[num |-> k, den |-> SentimentSteps] :
                              k \in (0 - SentimentSteps)..SentimentSteps},
     has_greeting       : BOOLEAN,
     question_count     : 0..MaxQuestions,
     word_count         : 1..MaxWords]

\* performance_score = got_response * 10 + (sentiment_polarity + 1) * 2
\*     + has_greeting * 1 + question_count * 0.5 + (word_count / 50) * 0.1,
\* as the fraction over 500 * the sentiment's denominator.
PerformanceScore(rec) ==
    LET s == rec.sentiment_polarity
    IN [num |-> (IF rec.got_response THEN 1 ELSE 0) * 10 * 500 * s.den
                + (s.num + s.den) * 2 * 500
                + (IF rec.has_greeting THEN 1 ELSE 0) * 500 * s.den
                + rec.question_count * 250 * s.den
                + rec.word_count * s.den,
        den |-> 500 * s.den]

\* The last statement of analyze_outbound_performance, on a table of records.
ScorePerformance ==
    /\ pc = "scoring"
    /\ outbound_performance' =
          [p \in DOMAIN outbound_performance |->
              outbound_performance[p] @@
              [performance_score |-> PerformanceScore(outbound_performance[p])]]
    /\ pc' = "scored"
    /\ UNCHANGED <<insightVars, salesVars, columns, raw, df, user_name, clusterVars>>

-----------------------------------------------------------------------------
(* sales_analyzer.py: classify_sales_messages *)

\* sales_analyzer.py: sales_keywords
sales_keywords == <<
    <<"o", "p", "p", "o", "r", "t", "u", "n", "i", "t", "y">>,
    <<"p", "o", "s", "i", "t", "i", "o", "n">>,
    <<"r", "o", "l", "e">>,
    <<"j", "o", "b">>,
    <<"h", "i", "r", "e">>,
    <<"h", "i", "r", "i", "n", "g">>,
    <<"c", "a", "n", "d", "i", "d", "a", "t", "e">>,
    <<"a", "p", "p", "l", "i", "c", "a", "t", "i", "o", "n">>,
    <<"a", "p", "p", "l", "i", "e", "d">>,
    <<"r", "e", "s", "u", "m", "e">>,
    <<"c", "v">>,
    <<"i", "n", "t", "e", "r", "v", "i", "e", "w">>,
    <<"b", "u", "s", "i", "n", "e", "s", "s">>,
    <<"c", "o", "m", "p", "a", "n", "y">>,
    <<"c", "l", "i", "e", "n", "t">>,
    <<"c", "u", "s", "t", "o", "m", "e", "r">>,
    <<"s", "e", "r", "v", "i", "c", "e">>,
    <<"s", "e", "r", "v", "i", "c", "e", "s">>,
    <<"c", "o", "n", "s", "u", "l", "t", "i", "n", "g">>,
    <<"c", "o", "n", "s", "u", "l", "t", "a", "n", "t">>,
    <<"h", "e", "l", "p">>,
    <<"a", "s", "s", "i", "s", "t">>,
    <<"s", "o", "l", "u", "t", "i", "o", "n">>,
    <<"r", "e", "v", "e", "n", "u", "e">>,
    <<"g", "r", "o", "w", "t", "h">>,
    <<"a", "r", "r">>,
    <<"s", "a", "a", "s">>,
    <<"s", "a", "l", "e", "s">>,
    <<"m", "a", "r", "k", "e", "t", "i", "n", "g">>,
    <<"p", "a", "r", "t", "n", "e", "r">>,
    <<"p", "a", "r", "t", "n", "e", "r", "s", "h", "i", "p">>,
    <<"c", "o", "l", "l", "a", "b", "o", "r", "a", "t", "e">>,
    <<"c", "o", "l", "l", "a", "b", "o", "r", "a", "t", "i", "o", "n">>,
    <<"w", "o", "r", "k", " ", "t", "o", "g", "e", "t", "h", "e", "r">>,
    <<"p", "r", "o", "j", "e", "c", "t">>,
    <<"f", "r", "e", "e", "l", "a", "n", "c", "e">>,
    <<"c", "o", "n", "t", "r", "a", "c", "t">>,
    <<"c", "o", "n", "t", "r", "a", "c", "t", "o", "r">>,
    <<"m", "e", "e", "t", "i", "n", "g">>,
    <<"c", "a", "l", "l">>,
    <<"d", "e", "m", "o">>,
    <<"p", "r", "e", "s", "e", "n", "t", "a", "t", "i", "o", "n">>,
    <<"d", "i", "s", "c", "u", "s", "s">>,
    <<"c", "h", "a", "t">>,
    <<"s", "c", "h", "e", "d", "u", "l", "e">>,
    <<"a", "v", "a", "i", "l", "a", "b", "l", "e">>,
    <<"t", "i", "m", "e">>,
    <<"c", "a", "l", "e", "n", "d", "a", "r">>,
    <<"e", "x", "p", "e", "r", "i", "e", "n", "c", "e">>,
    <<"e", "x", "p", "e", "r", "t", "i", "s", "e">>,
    <<"s", "k", "i", "l", "l", "s">>,
    <<"b", "a", "c", "k", "g", "r", "o", "u", "n", "d">>,
    <<"p", "o", "r", "t", "f", "o", "l", "i", "o">>,
    <<"r", "e", "s", "u", "l", "t", "s">>,
    <<"s", "u", "c", "c", "e", "s", "s">>,
    <<"a", "c", "h", "i", "e", "v", "e">>,
    <<"d", "e", "l", "i", "v", "e", "r">>,
    <<"p", "r", "o", "v", "i", "d", "e">>
    >>

\* the alternation of business_patterns[0]
RevenueWords == <<
    <<"a", "r", "r">>,
    <<"r", "e", "v", "e", "n", "u", "e">>,
    <<"m", "i", "l", "l", "i", "o", "n">>,
    <<"t", "h", "o", "u", "s", "a", "n", "d">>
    >>

\* business_patterns[2]
TitleWords == <<
    <<"c", "e", "o">>,
    <<"c", "t", "o">>,
    <<"f", "o", "u", "n", "d", "e", "r">>,
    <<"m", "a", "n", "a", "g", "e", "r">>,
    <<"d", "i", "r", "e", "c", "t", "o", "r">>,
    <<"l", "e", "a", "d">>
    >>

\* business_patterns[3]
EntityWords == <<
    <<"s", "t", "a", "r", "t", "u", "p">>,
    <<"c", "o", "m", "p", "a", "n", "y">>,
    <<"b", "u", "s", "i", "n", "e", "s", "s">>,
    <<"f", "i", "r", "m">>,
    <<"a", "g", "e", "n", "c", "y">>
    >>

\* business_patterns[4]
IndustryWords == <<
    <<"b", "2", "b">>,
    <<"s", "a", "a", "s">>,
    <<"f", "i", "n", "t", "e", "c", "h">>,
    <<"w", "e", "b", "3">>,
    <<"c", "r", "y", "p", "t", "o">>
    >>

\* sales_questions[0]
AreYouPhrases == <<
    <<"a", "r", "e", " ", "y", "o", "u", " ", "o", "p", "e", "n">>,
    <<"a", "r", "e", " ", "y", "o", "u", " ", "i", "n", "t", "e", "r", "e", "s", "t", "e", "d">>,
    <<"a", "r", "e", " ", "y", "o", "u", " ", "a", "v", "a", "i", "l", "a", "b", "l", "e">>,
    <<"a", "r", "e", " ", "y", "o", "u", " ", "l", "o", "o", "k", "i", "n", "g">>
    >>

\* sales_questions[1]
WouldYouPhrases == <<
    <<"w", "o", "u", "l", "d", " ", "y", "o", "u", " ", "l", "i", "k", "e">>,
    <<"w", "o", "u", "l", "d", " ", "y", "o", "u", " ", "b", "e", " ", "i", "n", "t", "e", "r", "e", "s", "t", "e", "d">>,
    <<"w", "o", "u", "l", "d", " ", "y", "o", "u", " ", "c", "o", "n", "s", "i", "d", "e", "r">>
    >>

\* sales_questions[2]
DoYouPhrases == <<
    <<"d", "o", " ", "y", "o", "u", " ", "n", "e", "e", "d">>,
    <<"d", "o", " ", "y", "o", "u", " ", "w", "a", "n", "t">>,
    <<"d", "o", " ", "y", "o", "u", " ", "h", "a", "v", "e">>,
    <<"d", "o", " ", "y", "o", "u", " ", "w", "o", "r", "k">>
    >>

\* sales_questions[3]
WhatPhrases == <<
    <<"w", "h", "a", "t", " ", "a", "r", "e", " ", "y", "o", "u">>,
    <<"w", "h", "a", "t", " ", "d", "o", " ", "y", "o", "u">>,
    <<"w", "h", "a", "t", " ", "i", "s", " ", "y", "o", "u", "r">>
    >>

\* sales_questions[4]
HowPhrases == <<
    <<"h", "o", "w", " ", "m", "a", "n", "y">>,
    <<"h", "o", "w", " ", "m", "u", "c", "h">>,
    <<"h", "o", "w", " ", "l", "o", "n", "g">>,
    <<"h", "o", "w", " ", "d", "o", " ", "y", "o", "u">>
    >>

\* get_sales_type: job_seeking
JobSeekingWords == <<
    <<"j", "o", "b">>,
    <<"p", "o", "s", "i", "t", "i", "o", "n">>,
    <<"r", "o", "l", "e">>,
    <<"h", "i", "r", "e">>,
    <<"c", "a", "n", "d", "i", "d", "a", "t", "e">>,
    <<"a", "p", "p", "l", "i", "c", "a", "t", "i", "o", "n">>
    >>

\* get_sales_type: service_offering
ServiceOfferingWords == <<
    <<"s", "e", "r", "v", "i", "c", "e">>,
    <<"h", "e", "l", "p">>,
    <<"c", "o", "n", "s", "u", "l", "t", "i", "n", "g">>,
    <<"s", "o", "l", "u", "t", "i", "o", "n">>,
    <<"p", "r", "o", "v", "i", "d", "e">>
    >>

\* get_sales_type: partnership
PartnershipWords == <<
    <<"p", "a", "r", "t", "n", "e", "r">>,
    <<"c", "o", "l", "l", "a", "b", "o", "r", "a", "t", "i", "o", "n">>,
    <<"w", "o", "r", "k", " ", "t", "o", "g", "e", "t", "h", "e", "r">>,
    <<"p", "r", "o", "j", "e", "c", "t">>
    >>

\* get_sales_type: meeting_request
MeetingRequestWords == <<
    <<"m", "e", "e", "t", "i", "n", "g">>,
    <<"c", "a", "l", "l">>,
    <<"d", "e", "m", "o">>,
    <<"s", "c", "h", "e", "d", "u", "l", "e">>,
    <<"a", "v", "a", "i", "l", "a", "b", "l", "e">>
    >>

YearMonthWords == <<
    <<"y", "e", "a", "r", "s">>, <<"y", "e", "a", "r">>,
    <<"m", "o", "n", "t", "h", "s">>, <<"m", "o", "n", "t", "h">>
    >>

ExperienceWord == <<"e", "x", "p">>

\* re.search(r'\$\d+[mk]?\s*(arr|revenue|million|thousand)', text)
RevenuePattern(text) ==
    \E i \in DOMAIN text :
        /\ text[i] = "$"
        /\ \E j \in (i + 2)..(Len(text) + 1) :
            /\ DigitRun(text, i + 1, j)
            /\ \E m \in {j} \cup {j + 1} :
                /\ m = j + 1 => (j <= Len(text) /\ text[j] \in {"m", "k"})
                /\ \E n \in m..(Len(text) + 1) :
                    /\ WhitespaceRun(text, m, n)
                    /\ AnyOccursAt(text, RevenueWords, n)

\* re.search(r'\d+\+?\s*(years?|months?)\s*(experience|exp)', text)
ExperiencePattern(text) ==
    \E i \in DOMAIN text :
        \E j \in (i + 1)..(Len(text) + 1) :
            /\ DigitRun(text, i, j)
            /\ \E m \in {j} \cup {j + 1} :
                /\ m = j + 1 => (j <= Len(text) /\ text[j] = "+")
                /\ \E n \in m..(Len(text) + 1) :
                    /\ WhitespaceRun(text, m, n)
                    /\ \E u \in DOMAIN YearMonthWords :
                        /\ OccursAt(text, YearMonthWords[u], n)
                        /\ \E e \in (n + Len(YearMonthWords[u]))..(Len(text) + 1) :
                            /\ WhitespaceRun(text, n + Len(YearMonthWords[u]), e)
                            /\ OccursAt(text, ExperienceWord, e)

\* sum(1 for pattern in business_patterns if re.search(pattern, text))
BusinessPatternMatches(text) ==
    (IF RevenuePattern(text) THEN 1 ELSE 0)
    + (IF ExperiencePattern(text) THEN 1 ELSE 0)
    + (IF ContainsAny(text, TitleWords) THEN 1 ELSE 0)
    + (IF ContainsAny(text, EntityWords) THEN 1 ELSE 0)
    + (IF ContainsAny(text, IndustryWords) THEN 1 ELSE 0)

\* sum(1 for pattern in sales_questions if re.search(pattern, text))
SalesQuestionMatches(text) ==
    (IF ContainsAny(text, AreYouPhrases) THEN 1 ELSE 0)
    + (IF ContainsAny(text, WouldYouPhrases) THEN 1 ELSE 0)
    + (IF ContainsAny(text, DoYouPhrases) THEN 1 ELSE 0)
    + (IF ContainsAny(text, WhatPhrases) THEN 1 ELSE 0)
    + (IF ContainsAny(text, HowPhrases) THEN 1 ELSE 0)

\* A score that counts a question as much as a business pattern.
QuestionsAsPatterns(content) ==
    LET content_lower == Lower(content)
    IN 2 * CountContained(content_lower, sales_keywords)
       + 4 * BusinessPatternMatches(content_lower)
       + 4 * SalesQuestionMatches(content_lower) >= 4

\* total_score >= 2 with total_score = keywords + 2 * patterns + 1.5 *
\* questions, both sides doubled to stay in the integers.
is_sales_message(content) ==
    LET content_lower == Lower(content)
    IN 2 * CountContained(content_lower, sales_keywords)
       + 4 * BusinessPatternMatches(content_lower)
       + 3 * SalesQuestionMatches(content_lower) >= 4

\* A chain that tests for the meeting_request words first.
MeetingRequestFirst(content) ==
    LET content_lower == Lower(content)
    IN IF ContainsAny(content_lower, MeetingRequestWords) THEN "meeting_request"
       ELSE IF ContainsAny(content_lower, JobSeekingWords) THEN "job_seeking"
       ELSE IF ContainsAny(content_lower, ServiceOfferingWords) THEN "service_offering"
       ELSE IF ContainsAny(content_lower, PartnershipWords) THEN "partnership"
       ELSE "business_general"

get_sales_type(content) ==
    LET content_lower == Lower(content)
    IN IF ContainsAny(content_lower, JobSeekingWords) THEN "job_seeking"
       ELSE IF ContainsAny(content_lower, ServiceOfferingWords) THEN "service_offering"
       ELSE IF ContainsAny(content_lower, PartnershipWords) THEN "partnership"
       ELSE IF ContainsAny(content_lower, MeetingRequestWords) THEN "meeting_request"
       ELSE "business_general"

\* The two columns classify_sales_messages assigns.
SalesClassifiedFrame(frame) ==
    [q \in DOMAIN frame |->
        LET sales == is_sales_message(frame[q].content)
        IN [is_sales_message |-> sales,
            sales_type |-> IF sales THEN get_sales_type(frame[q].content)
                           ELSE "non_sales"] @@ frame[q]]

ClassifySalesMessages ==
    /\ pc = "outbound"
    /\ df' = SalesClassifiedFrame(df)
    /\ pc' = "classified"
    /\ UNCHANGED <<insightVars, salesVars, columns, raw, user_name, outbound_performance, clusterVars>>

-----------------------------------------------------------------------------
(* difflib.SequenceMatcher(None, a, b).ratio(), for texts too short for   *)
(* the autojunk heuristic (under 200 characters)                          *)

\* The length of the longest block a[i..] = b[j..] within a[..ahi], b[..bhi].
RECURSIVE BlockLength(_, _, _, _, _, _)
BlockLength(a, b, i, j, ahi, bhi) ==
    IF i > ahi \/ j > bhi \/ a[i] # b[j] THEN 0
    ELSE 1 + BlockLength(a, b, i + 1, j + 1, ahi, bhi)

\* find_longest_match: of the longest blocks the one that starts earliest
\* in a, and of those the one that starts earliest in b.
FindLongestMatch(a, b, alo, ahi, blo, bhi) ==
    LET starts == (alo..ahi) \X (blo..bhi)
        best == CHOOSE k \in 0..(ahi - alo + 1) :
                    /\ k = 0 \/ \E st \in starts :
                                    BlockLength(a, b, st[1], st[2], ahi, bhi) = k
                    /\ \A st \in starts :
                            BlockLength(a, b, st[1], st[2], ahi, bhi) <= k
        longest == {st \in starts :
                        BlockLength(a, b, st[1], st[2], ahi, bhi) = best}
        first == CHOOSE st \in longest :
                    \A o \in longest :
                        st[1] < o[1] \/ (st[1] = o[1] /\ st[2] <= o[2])
    IN IF best = 0 THEN [i |-> alo, j |-> blo, size |-> 0]
       ELSE [i |-> first[1], j |-> first[2], size |-> best]

\* get_matching_blocks: the characters matched, the longest block first and
\* then the texts to its left and to its right.
RECURSIVE MatchedCharacters(_, _, _, _, _, _)
MatchedCharacters(a, b, alo, ahi, blo, bhi) ==
    IF alo > ahi \/ blo > bhi THEN 0
    ELSE LET m == FindLongestMatch(a, b, alo, ahi, blo, bhi)
         IN IF m.size = 0 THEN 0
            ELSE m.size
                 + MatchedCharacters(a, b, alo, m.i - 1, blo, m.j - 1)
                 + MatchedCharacters(a, b, m.i + m.size, ahi, m.j + m.size, bhi)

\* ratio() = 2.0 * matches / (len(a) + len(b)), 1.0 for two empty texts.
Ratio(a, b) ==
    IF Len(a) + Len(b) = 0 THEN [num |-> 1, den |-> 1]
    ELSE [num |-> 2 * MatchedCharacters(a, b, 1, Len(a), 1, Len(b)),
          den |-> Len(a) + Len(b)]

-----------------------------------------------------------------------------
(* sales_analyzer.py: find_similar_sales_patterns *)

\* similarity_threshold = 0.6
ThresholdNum == 6
ThresholdDen == 10

\* str(msg['content']).lower().strip()
Normalize(content) == Strip(Lower(content))

\* similarity >= similarity_threshold
Similar(a, b) == Ratio(a, b).num * ThresholdDen >= ThresholdNum * Ratio(a, b).den

\* outbound_performance_df.merge(df[['is_sales_message', 'sales_type']]
\*     .reset_index(), left_index=True, right_on='index', how='left'):
\* the record at position p - 1 of the table is joined with the message
\* whose label is p - 1, and the merged row's own label is that message's
\* position in the frame.  (analyze_sales_performance merges the same way.)
MergeSalesClassification(table, frame) ==
    [p \in DOMAIN table |->
        LET hits == {q \in DOMAIN frame : frame[q].index = p - 1}
        IN IF hits = {}
           THEN table[p] @@ [idx |-> None, is_sales_message |-> None,
                             sales_type |-> None]
           ELSE LET q == CHOOSE h \in hits : TRUE
                IN table[p] @@
                   [idx |-> Some(q - 1),
                    is_sales_message |-> Some(frame[q].is_sales_message),
                    sales_type |-> Some(frame[q].sales_type)]]

\* A filter that forgets got_response.
IsSalesOnly(row) == row.is_sales_message = Some(TRUE)

\* (is_sales_message == True) & (got_response == True)
IsSuccessfulSales(row) ==
    row.is_sales_message = Some(TRUE) /\ row.got_response = TRUE

RECURSIVE SelectRows(_, _)
SelectRows(table, n) ==
    IF n = 0 THEN <<>>
    ELSE IF IsSuccessfulSales(table[n])
         THEN Append(SelectRows(table, n - 1), table[n])
         ELSE SelectRows(table, n - 1)

FindPatternsBegin ==
    /\ pc = "classified"
    /\ LET merged == MergeSalesClassification(outbound_performance, df)
           chosen == SelectRows(merged, Len(merged))
       IN /\ sales_with_performance' = merged
          /\ sales_messages' = chosen
          /\ processed_indices' = {}
          /\ all_groups' = <<>>
          /\ message_groups' = <<>>
          /\ IF chosen = <<>>
             THEN cursor' = 0 /\ pc' = "done"    \* return []
             ELSE cursor' = 1 /\ pc' = "clustering"
    /\ UNCHANGED <<insightVars, salesVars, columns, raw, df, user_name, outbound_performance>>

\* The member a candidate is compared with: the one added last.
LastAdded(similar) == similar[Len(similar)]

\* The member a candidate is compared with: the first that joined the seed.
FirstJoined(similar) == IF Len(similar) >= 2 THEN similar[2] ELSE similar[1]

\* The member a candidate is compared with: the seed, current_content.
ComparedWith(similar) == similar[1]

\* A test that finds no row processed.
NeverProcessed(idx, processed) == FALSE

\* idx in processed_indices
AlreadyProcessed(idx, processed) == idx \in processed

\* An inner loop that ends at the first row that is not similar.
RECURSIVE StopAtFirstMiss(_, _, _, _)
StopAtFirstMiss(rows, n, similar, processed) ==
    IF n > Len(rows) THEN [similar |-> similar, processed |-> processed]
    ELSE IF AlreadyProcessed(rows[n].idx, processed)
         THEN StopAtFirstMiss(rows, n + 1, similar, processed)
         ELSE IF Similar(Normalize(ComparedWith(similar).content),
                         Normalize(rows[n].content))
              THEN StopAtFirstMiss(rows, n + 1, Append(similar, rows[n]),
                                   processed \cup {rows[n].idx})
              ELSE [similar |-> similar, processed |-> processed]

\* The inner loop over rows n..Len(rows): similar_messages and
\* processed_indices as it leaves them.
RECURSIVE InnerLoop(_, _, _, _)
InnerLoop(rows, n, similar, processed) ==
    IF n > Len(rows) THEN [similar |-> similar, processed |-> processed]
    ELSE IF AlreadyProcessed(rows[n].idx, processed)
         THEN InnerLoop(rows, n + 1, similar, processed)
         ELSE IF Similar(Normalize(ComparedWith(similar).content),
                         Normalize(rows[n].content))
              THEN InnerLoop(rows, n + 1, Append(similar, rows[n]),
                             processed \cup {rows[n].idx})
              ELSE InnerLoop(rows, n + 1, similar, processed)

RECURSIVE SumOfNumerators(_)
SumOfNumerators(times) ==
    IF times = <<>> THEN 0
    ELSE times[1].num + SumOfNumerators(Tail(times))

\* np.mean(response_times) if response_times else 0, the mean of fractions
\* over 3600 kept as a fraction.
MeanResponseTime(similar) ==
    LET times == SelectSeq([k \in DOMAIN similar |-> similar[k].response_time_hours],
                           LAMBDA t : t # None)
    IN IF times = <<>> THEN [num |-> 0, den |-> 1]
       ELSE [num |-> SumOfNumerators([k \in DOMAIN times |-> times[k][1]]),
             den |-> 3600 * Len(times)]

Dots == <<".", ".", ".">>

\* group_data
GroupData(similar) ==
    LET current_content == Normalize(similar[1].content)
    IN [pattern_preview   |-> IF Len(current_content) > 100
                              THEN SubSeq(current_content, 1, 100) \o Dots
                              ELSE current_content,
        message_count     |-> Len(similar),
        response_rate     |-> 1,
        avg_response_time |-> MeanResponseTime(similar),
        sales_types       |-> [k \in DOMAIN similar |-> similar[k].sales_type],
        example_messages  |-> [k \in 1..(IF Len(similar) < 3 THEN Len(similar) ELSE 3)
                                  |-> similar[k].content]]

\* Every group kept, whatever its size.
KeepEveryGroup(similar) == TRUE

\* len(similar_messages) >= 2
KeepGroup(similar) == Len(similar) >= 2

\* One pass of the outer loop, over the row at position cursor.
PatternLoopStep ==
    /\ pc = "clustering"
    /\ cursor <= Len(sales_messages)
    /\ LET msg == sales_messages[cursor]
       IN IF AlreadyProcessed(msg.idx, processed_indices)
          THEN UNCHANGED <<processed_indices, all_groups, message_groups>>
          ELSE LET out == InnerLoop(sales_messages, 1, <<msg>>,
                                    processed_indices \cup {msg.idx})
               IN /\ processed_indices' = out.processed
                  /\ all_groups' = Append(all_groups, out.similar)
                  /\ message_groups' =
                        IF KeepGroup(out.similar)
                        THEN Append(message_groups, GroupData(out.similar))
                        ELSE message_groups
    /\ cursor' = cursor + 1
    /\ UNCHANGED <<insightVars, salesVars, columns, raw, df, user_name, outbound_performance,
                   sales_with_performance, sales_messages, pc>>

\* Less than: x.num / x.den < y.num / y.den, the denominators positive.
FractionLess(x, y) == x.num * y.den < y.num * x.den

\* The key with the average response time not negated.
KeyGreaterNotNegated(g, h) ==
    \/ g.message_count > h.message_count
    \/ /\ g.message_count = h.message_count
       /\ FractionLess(h.avg_response_time, g.avg_response_time)

\* (g.message_count, -g.avg_response_time) > (h.message_count, -h.avg_response_time)
KeyGreater(g, h) ==
    \/ g.message_count > h.message_count
    \/ /\ g.message_count = h.message_count
       /\ FractionLess(g.avg_response_time, h.avg_response_time)

\* g put into the sorted list behind every group whose key is not smaller.
RECURSIVE InsertGroup(_, _)
InsertGroup(groups, g) ==
    IF groups = <<>> THEN <<g>>
    ELSE IF KeyGreater(g, groups[Len(groups)])
         THEN Append(InsertGroup(SubSeq(groups, 1, Len(groups) - 1), g),
                     groups[Len(groups)])
         ELSE Append(groups, g)

\* list.sort(key=..., reverse=True): descending by key, and stable.
RECURSIVE SortGroups(_)
SortGroups(groups) ==
    IF groups = <<>> THEN <<>>
    ELSE InsertGroup(SortGroups(SubSeq(groups, 1, Len(groups) - 1)),
                     groups[Len(groups)])

\* The loop has ended: the groups are sorted and returned.
PatternSort ==
    /\ pc = "clustering"
    /\ cursor > Len(sales_messages)
    /\ message_groups' = SortGroups(message_groups)
    /\ pc' = "done"
    /\ UNCHANGED <<insightVars, salesVars, columns, raw, df, user_name, outbound_performance,
                   sales_with_performance, sales_messages, processed_indices,
                   cursor, all_groups>>

\* The outer loop from the row at position i on: the groups it keeps.
RECURSIVE OuterLoop(_, _, _, _)
OuterLoop(rows, i, processed, groups) ==
    IF i > Len(rows) THEN groups
    ELSE IF AlreadyProcessed(rows[i].idx, processed)
         THEN OuterLoop(rows, i + 1, processed, groups)
         ELSE LET out == InnerLoop(rows, 1, <<rows[i]>>,
                                   processed \cup {rows[i].idx})
              IN OuterLoop(rows, i + 1, out.processed,
                           IF KeepGroup(out.similar)
                           THEN Append(groups, GroupData(out.similar))
                           ELSE groups)

\* find_similar_sales_patterns as one function of its two arguments.
FindSimilarSalesPatterns(table, frame) ==
    LET merged == MergeSalesClassification(table, frame)
        chosen == SelectRows(merged, Len(merged))
    IN SortGroups(OuterLoop(chosen, 1, {}, <<>>))

-----------------------------------------------------------------------------
(* sales_analyzer.py: analyze_sales_performance and get_sales_insights *)

\* The number of rows of a table with got_response True.
GotResponseSum(table) == Len(SelectSeq(table, LAMBDA row : row.got_response))

\* got_response.mean(), as the fraction of the rows answered (the table is
\* not empty).
GotResponseMean(table) == [num |-> GotResponseSum(table), den |-> Len(table)]

\* The entry of sales_performance for a sales type.  The averages of the
\* response time, the sentiment and the length are not modelled.
TypePerformance(sales_messages_, sales_type) ==
    LET type_messages ==
            SelectSeq(sales_messages_, LAMBDA row : row.sales_type = sales_type)
    IN [sales_type    |-> sales_type[1],
        total_sent    |-> Len(type_messages),
        got_response  |-> GotResponseSum(type_messages),
        response_rate |-> GotResponseMean(type_messages)]

\* What analyze_sales_performance returns, given the outbound table: {}
\* (here <<>>) when no record is a sales message, and else <<overall_stats>>.
\* sales_performance_by_type lists the types in the order the dict holds
\* them, that of their first rows.
AnalyzeSalesPerformance(frame, table) ==
    LET merged == MergeSalesClassification(table, frame)
        sales == SelectSeq(merged, LAMBDA row : row.is_sales_message = Some(TRUE))
        non_sales == SelectSeq(merged, LAMBDA row : row.is_sales_message = Some(FALSE))
        types == SelectSeq(UniqueInOrder([k \in DOMAIN sales |-> sales[k].sales_type]),
                           LAMBDA t : t # Some("non_sales"))
    IN IF sales = <<>> THEN <<>>
       ELSE <<[sales_total_messages     |-> Len(sales),
               sales_responses          |-> GotResponseSum(sales),
               sales_response_rate      |-> GotResponseMean(sales),
               non_sales_total_messages |-> Len(non_sales),
               non_sales_responses      |-> GotResponseSum(non_sales),
               non_sales_response_rate  |->
                   IF Len(non_sales) > 0 THEN GotResponseMean(non_sales)
                   ELSE [num |-> 0, den |-> 1],
               sales_performance_by_type |->
                   [k \in DOMAIN types |-> TypePerformance(sales, types[k])]]>>

\* a / b in floating point: with b zero and a positive the quotient is
\* inf, the fraction of denominator 0 here.
Quotient(a, b) == [num |-> a.num * b.den, den |-> a.den * b.num]

\* (sales_rate - non_sales_rate) / non_sales_rate
Lift(sales_rate, non_sales_rate) ==
    Quotient([num |-> sales_rate.num * non_sales_rate.den
                         - non_sales_rate.num * sales_rate.den,
              den |-> sales_rate.den * non_sales_rate.den],
             non_sales_rate)

\* The integer the format .0f prints for num / den (num >= 0, den > 0):
\* the nearest one, the even one of two that are as near.
RoundHalfEven(num, den) ==
    LET floor == num \div den
        twice == 2 * (num % den)
    IN IF twice < den THEN floor
       ELSE IF twice > den THEN floor + 1
       ELSE IF floor % 2 = 0 THEN floor ELSE floor + 1

\* f"{(sales_rate/non_sales_rate - 1)*100:.0f}", for sales_rate >
\* non_sales_rate: the text "inf" when the quotient is inf.
PercentBetter(sales_rate, non_sales_rate) ==
    LET q == Quotient(sales_rate, non_sales_rate)
    IN IF q.den = 0 THEN [finite |-> FALSE, digits |-> 0]
       ELSE [finite |-> TRUE,
             digits |-> RoundHalfEven((q.num - q.den) * 100, q.den)]

\* g put into the list sorted by response rate, descending, behind every
\* entry whose rate is not smaller.
RECURSIVE InsertByRate(_, _)
InsertByRate(entries, g) ==
    IF entries = <<>> THEN <<g>>
    ELSE IF FractionLess(entries[Len(entries)].response_rate, g.response_rate)
         THEN Append(InsertByRate(SubSeq(entries, 1, Len(entries) - 1), g),
                     entries[Len(entries)])
         ELSE Append(entries, g)

\* type_performance.sort(key=lambda x: x[1], reverse=True)
RECURSIVE SortByRate(_)
SortByRate(entries) ==
    IF entries = <<>> THEN <<>>
    ELSE InsertByRate(SortByRate(SubSeq(entries, 1, Len(entries) - 1)),
                      entries[Len(entries)])

\* What get_sales_insights returns: {} (here <<>>) for an empty
\* sales_performance, and else <<insights>>.  A recommendation is the
\* template of its f-string with the values the template is filled with.
GetSalesInsights(performance, patterns) ==
    IF performance = <<>> THEN <<>>
    ELSE LET perf == performance[1]
             sales_rate == perf.sales_response_rate
             non_sales_rate == perf.non_sales_response_rate
             type_performance ==
                 SortByRate(SelectSeq(perf.sales_performance_by_type,
                                      LAMBDA v : v.total_sent >= 3))
             best == IF type_performance = <<>> THEN None
                     ELSE Some(type_performance[1].sales_type)
             worst == IF type_performance = <<>> THEN None
                      ELSE Some(type_performance[Len(type_performance)].sales_type)
         IN <<[total_sales_messages    |-> perf.sales_total_messages,
               sales_response_rate     |-> sales_rate,
               non_sales_response_rate |-> non_sales_rate,
               sales_vs_non_sales_lift |->
                   IF non_sales_rate.num > 0 THEN Lift(sales_rate, non_sales_rate)
                   ELSE [num |-> 0, den |-> 1],
               best_performing_sales_type  |-> best,
               worst_performing_sales_type |-> worst,
               most_common_patterns    |-> Len(patterns),
               top_sales_recommendations |->
                   (IF FractionLess(non_sales_rate, sales_rate)
                    THEN <<[says |-> "sales_perform_better",
                            percent |-> Some(PercentBetter(sales_rate, non_sales_rate))]>>
                    ELSE <<[says |-> "more_casual", percent |-> None]>>)
                   \o (IF best # None
                       THEN <<[says |-> "focus_on_best_type", percent |-> None]>>
                       ELSE <<>>)
                   \o (IF Len(patterns) > 0
                       THEN <<[says |-> "reuse_top_pattern", percent |-> None]>>
                       ELSE <<>>)]>>

\* main(), the end of step 4c: analyze_sales_performance, which main()
\* calls before find_similar_sales_patterns and which reads the frame
\* and the outbound table alone, and get_sales_insights.
SalesInsights ==
    /\ pc = "done"
    /\ sales_performance' = AnalyzeSalesPerformance(df, outbound_performance)
    /\ sales_insights' = GetSalesInsights(sales_performance', message_groups)
    /\ pc' = "finished"
    /\ UNCHANGED <<insightVars, columns, raw, df, user_name, outbound_performance,
                   clusterVars>>

-----------------------------------------------------------------------------
(* The input families and the pipeline *)

FixedContent == <<"c", "t", "o">>

\* The TO cell of the files whose recipients are not varied.
Counterpart(sender) == IF sender = "me" THEN "alice" ELSE "me"

RawRows ==
    {[thread_id |-> t, sender |-> p, recipient |-> Counterpart(p),
      date |-> d, content |-> FixedContent] :
        t \in Threads, p \in Persons, d \in Dates}

\* Names are opaque to the pipeline, which only compares them: the files
\* of the general family name their senders in the order they first appear.
NamedInOrder(rows) ==
    \A q \in DOMAIN rows :
        /\ rows[q].sender = "alice" => \E r \in 1..(q - 1) : rows[r].sender = "me"
        /\ rows[q].sender = "bob" => \E r \in 1..(q - 1) : rows[r].sender = "alice"

NoSalesInsights ==
    /\ sales_performance = <<>>
    /\ sales_insights = <<>>

NoInsights ==
    /\ conversation_summary = <<>>
    /\ conversation_stats = <<>>
    /\ analysis_results = <<>>
    /\ top_messages = {}

Unstarted ==
    /\ columns = required_columns
    /\ NoInsights
    /\ NoSalesInsights
    /\ df = <<>>
    /\ user_name = ""
    /\ outbound_performance = <<>>
    /\ sales_with_performance = <<>>
    /\ sales_messages = <<>>
    /\ processed_indices = {}
    /\ cursor = 0
    /\ all_groups = <<>>
    /\ message_groups = <<>>
    /\ pc = "start"

\* The general family: every file of at most MaxRows rows.
InitThreads ==
    /\ raw \in {rows \in UNION {[1..n -> RawRows] : n \in 0..MaxRows} :
                    NamedInOrder(rows)}
    /\ Unstarted

\* main(), from the loader to the outbound analysis.
NextThreads ==
    \/ ValidateCsvStructure
    \/ LoadMessagesCsv
    \/ ClassifyMessageDirection
    \/ DetectRepliesAndResponseTimes
    \/ GetConversationInsights
    \/ AnalyzeOutboundPerformance

SpecThreads == InitThreads /\ [][NextThreads]_vars

\* The most messages "me" sends in a file of the outreach family.
MaxOut == 4

\* The texts of the outreach family: two sales texts with no character in
\* common, a sales text that holds them both, and a text that is not sales.
TextCto == <<"C", "t", "o", " ">>
TextB2b == <<"b", "2", "b">>
TextBoth == <<"c", "t", "o", "b", "2", "b">>
TextHi == <<"h", "i">>
Texts == {TextCto, TextB2b, TextBoth, TextHi}

\* A file of the outreach family: n messages of "me" at tick 0, the first
\* split of them in thread 2 and the others in thread 1, followed by what
\* "alice" answered: in thread 1 at tick reply1, in thread 2 at tick 1
\* (reply1 = 0, reply2 = FALSE: no answer).
OutreachFile(texts, split, reply1, reply2) ==
    [q \in DOMAIN texts |->
        [thread_id |-> IF q <= split THEN 2 ELSE 1,
         sender |-> "me", recipient |-> "alice", date |-> 0,
         content |-> texts[q]]]
    \o (IF reply1 = 0 THEN <<>>
        ELSE <<[thread_id |-> 1, sender |-> "alice", recipient |-> "me",
                date |-> reply1, content |-> TextHi]>>)
    \o (IF reply2
        THEN <<[thread_id |-> 2, sender |-> "alice", recipient |-> "me",
                date |-> 1, content |-> TextHi]>>
        ELSE <<>>)

\* The outreach family.
Init ==
    /\ \E n \in 1..MaxOut :
        \E texts \in [1..n -> Texts], split \in 0..n,
           reply1 \in 0..MaxTick, reply2 \in BOOLEAN :
            raw = OutreachFile(texts, split, reply1, reply2)
    /\ Unstarted

\* main(), from the loader to the pattern clusterer.
Next ==
    \/ ValidateCsvStructure
    \/ LoadMessagesCsv
    \/ ClassifyMessageDirection
    \/ DetectRepliesAndResponseTimes
    \/ GetConversationInsights
    \/ AnalyzeOutboundPerformance
    \/ ClassifySalesMessages
    \/ FindPatternsBegin
    \/ PatternLoopStep
    \/ PatternSort

Spec == Init /\ [][Next]_vars

\* The score family: a table of two records, the first answered and the
\* second not, with every value of the columns the score is computed from.
InitScore ==
    /\ columns = required_columns
    /\ NoInsights
    /\ NoSalesInsights
    /\ raw = <<>>
    /\ df = <<>>
    /\ user_name = ""
    /\ sales_with_performance = <<>>
    /\ sales_messages = <<>>
    /\ processed_indices = {}
    /\ cursor = 0
    /\ all_groups = <<>>
    /\ message_groups = <<>>
    /\ pc = "scoring"
    /\ outbound_performance \in
          {t \in [1..2 -> ScoreInputs] :
              t[1].got_response /\ ~t[2].got_response}

NextScore == ScorePerformance

SpecScore == InitScore /\ [][NextScore]_vars

\* The contact family: every file of at most MaxRows rows at one date, the
\* TO cell any of two contacts or empty, and the owner either left to
\* auto-detection or given by the caller.
Recipients == {"alice", "bob", NoRecipient}

ContactRows ==
    [thread_id : Threads, sender : Persons, recipient : Recipients,
     date : {0}, content : {FixedContent}]

InitContacts ==
    /\ raw \in {rows \in UNION {[1..n -> ContactRows] : n \in 0..MaxRows} :
                    NamedInOrder(rows)}
    /\ columns = required_columns
    /\ NoInsights
    /\ NoSalesInsights
    /\ df = <<>>
    /\ user_name \in {""} \cup Persons
    /\ outbound_performance = <<>>
    /\ sales_with_performance = <<>>
    /\ sales_messages = <<>>
    /\ processed_indices = {}
    /\ cursor = 0
    /\ all_groups = <<>>
    /\ message_groups = <<>>
    /\ pc = "start"

NextContacts ==
    \/ ValidateCsvStructure
    \/ LoadMessagesCsv
    \/ ClassifyMessageDirection
    \/ DetectRepliesAndResponseTimes
    \/ GetConversationInsights

SpecContacts == InitContacts /\ [][NextContacts]_vars

\* The texts of the scoring family: one keyword, two keywords, one business
\* pattern, one qualifying question, a question with a keyword, none.
TextJob == <<"J", "o", "b">>
TextJobRole == <<"j", "o", "b", " ", "r", "o", "l", "e">>
TextAreYouOpen == <<"A", "r", "e", " ", "y", "o", "u", " ", "o", "p", "e", "n", "?">>
TextDoYouNeedHelp == <<"d", "o", " ", "y", "o", "u", " ", "n", "e", "e", "d", " ", "h", "e", "l", "p">>
ScoredTexts == {TextJob, TextJobRole, TextCto, TextAreYouOpen,
                TextDoYouNeedHelp, TextHi}

\* A file of the scoring family: "alice" begins thread 1 and "me" answers,
\* "me" begins thread 2.
ScoredFile(texts) ==
    <<[thread_id |-> 1, sender |-> "alice", recipient |-> "me", date |-> 0,
       content |-> texts[1]],
      [thread_id |-> 1, sender |-> "me", recipient |-> "alice", date |-> 1,
       content |-> texts[2]],
      [thread_id |-> 2, sender |-> "me", recipient |-> "bob", date |-> 0,
       content |-> texts[3]]>>

InitScored ==
    /\ raw \in {ScoredFile(texts) : texts \in [1..3 -> ScoredTexts]}
    /\ Unstarted

NextScored ==
    \/ ValidateCsvStructure
    \/ LoadMessagesCsv
    \/ ClassifyMessageDirection
    \/ DetectRepliesAndResponseTimes
    \/ GetConversationInsights
    \/ AnalyzeOutboundPerformance
    \/ ClassifySalesMessages

SpecScored == InitScored /\ [][NextScored]_vars

\* The most rows of a file of the header family.
MaxValidatedRows == 1

\* How a header writes the required column k: as it is required, in lower
\* case between blanks, or not at all.
Written(k, how) ==
    IF how = "exact" THEN required_columns[k]
    ELSE IF how = "messy" THEN <<" ">> \o Lower(required_columns[k]) \o <<" ">>
    ELSE <<>>

HeaderOf(choice) ==
    SelectSeq([k \in DOMAIN required_columns |-> Written(k, choice[k])],
              LAMBDA c : c # <<>>)

Headers ==
    {HeaderOf(choice) :
        choice \in [DOMAIN required_columns -> {"exact", "messy", "absent"}]}

\* The rows of the header family: any of the essential cells may be empty.
ValidatedRows ==
    [thread_id : {1, NoThread}, sender : {"me", "alice", NoSender},
     recipient : {"alice"}, date : {0, BadDate},
     content : {FixedContent, NoContent}]

\* The header family: every header over the required columns, on files of
\* at most MaxValidatedRows rows.
InitValidate ==
    /\ columns \in Headers
    /\ NoInsights
    /\ NoSalesInsights
    /\ raw \in UNION {[1..n -> ValidatedRows] : n \in 0..MaxValidatedRows}
    /\ df = <<>>
    /\ user_name = ""
    /\ outbound_performance = <<>>
    /\ sales_with_performance = <<>>
    /\ sales_messages = <<>>
    /\ processed_indices = {}
    /\ cursor = 0
    /\ all_groups = <<>>
    /\ message_groups = <<>>
    /\ pc = "start"

SpecValidate == InitValidate /\ [][NextThreads]_vars

\* The most messages "me" sends in a file of the sales insight family.
MaxSalesOut == 3

\* The sales insight family: the files of the outreach family with at
\* most MaxSalesOut messages of "me".
InitSales ==
    /\ \E n \in 1..MaxSalesOut :
        \E texts \in [1..n -> Texts], split \in 0..n,
           reply1 \in 0..MaxTick, reply2 \in BOOLEAN :
            raw = OutreachFile(texts, split, reply1, reply2)
    /\ Unstarted

\* main(), from the loader to the sales insights.
NextSales ==
    \/ ValidateCsvStructure
    \/ LoadMessagesCsv
    \/ ClassifyMessageDirection
    \/ DetectRepliesAndResponseTimes
    \/ GetConversationInsights
    \/ AnalyzeOutboundPerformance
    \/ ClassifySalesMessages
    \/ FindPatternsBegin
    \/ PatternLoopStep
    \/ PatternSort
    \/ SalesInsights

SpecSales == InitSales /\ [][NextSales]_vars

\* The texts of the message type family: each but the last two satisfies
\* several rules ("hi" without a blank after it satisfies none).
TextThanksHey == <<"T", "h", "a", "n", "k", "s", ",", " ", "h", "e", "y">>
TextThankYouJob == <<"t", "h", "a", "n", "k", " ", "y", "o", "u", "?", " ", "j", "o", "b">>
TextHeyRole == <<"H", "E", "Y", " ", "r", "o", "l", "e", "?">>
TextHiNetwork == <<"h", "i", " ", "n", "e", "t", "w", "o", "r", "k">>
TextJobFollowUp == <<"j", "o", "b", "?", " ", "f", "o", "l", "l", "o", "w", " ", "u", "p">>
TextFollowingUp == <<"F", "o", "l", "l", "o", "w", "i", "n", "g", " ", "u", "p", ",", " ", "j", "o", "b">>
TextRoleConnect == <<"r", "o", "l", "e", " ", "c", "o", "n", "n", "e", "c", "t">>
TextNetwork == <<"N", "e", "t", "w", "o", "r", "k">>
TypedTexts == {TextThanksHey, TextThankYouJob, TextHeyRole, TextHiNetwork, TextJobFollowUp, TextFollowingUp, TextRoleConnect, TextNetwork, TextHi, TextCto}

\* A file of the message type family: "me" writes two messages in a
\* thread and "alice" answers the first.
TypedFile(texts) ==
    <<[thread_id |-> 1, sender |-> "me", recipient |-> "alice", date |-> 0,
       content |-> texts[1]],
      [thread_id |-> 1, sender |-> "alice", recipient |-> "me", date |-> 1,
       content |-> TextHi],
      [thread_id |-> 1, sender |-> "me", recipient |-> "alice", date |-> 2,
       content |-> texts[2]]>>

InitTyped ==
    /\ raw \in {TypedFile(texts) : texts \in [1..2 -> TypedTexts]}
    /\ Unstarted

SpecTyped == InitTyped /\ [][NextThreads]_vars

\* The texts of the sales type family: sales messages that match two
\* categories, one that matches a category and a message_type rule of
\* another kind, one that matches no category, and two messages that are
\* not sales, of which one holds a word of the job_seeking category.
TextJobService == <<"J", "o", "b", " ", "s", "e", "r", "v", "i", "c", "e">>
TextClientServiceProject == <<"c", "l", "i", "e", "n", "t", " ", "s", "e", "r", "v", "i", "c", "e", " ", "p", "r", "o", "j", "e", "c", "t">>
TextCtoPartnerDemo == <<"C", "t", "o", " ", "p", "a", "r", "t", "n", "e", "r", " ", "d", "e", "m", "o">>
TextThanksCtoDemo == <<"t", "h", "a", "n", "k", "s", ",", " ", "c", "t", "o", " ", "d", "e", "m", "o">>
SalesTypedTexts ==
    {TextJobService, TextClientServiceProject, TextCtoPartnerDemo, TextThanksCtoDemo,
     TextCto, TextJob, TextHi}

InitSalesTyped ==
    /\ raw \in {ScoredFile(texts) : texts \in [1..3 -> SalesTypedTexts]}
    /\ Unstarted

SpecSalesTyped == InitSalesTyped /\ [][NextScored]_vars


-----------------------------------------------------------------------------
(* Properties of the thread reconstruction and the outbound analysis *)

Detected == pc \in {"detected", "insights", "outbound"}

\* m comes before n in thread order: by timestamp, a missing timestamp
\* last, rows with the same timestamp in the order of the file.
EarlierInThread(m, n) ==
    \/ m.timestamp # NaT /\ n.timestamp = NaT
    \/ m.timestamp # NaT /\ n.timestamp # NaT /\ m.timestamp < n.timestamp
    \/ m.timestamp = n.timestamp /\ m.index < n.index

RowsOfThread(t) == {q \in DOMAIN df : df[q].thread_id = t}

\* The message with the label id.
MessageWithId(id) == df[CHOOSE q \in DOMAIN df : df[q].index = id]

\* The inbound messages of M's thread with a timestamp strictly later.
LaterInbound(M) ==
    {q \in DOMAIN df :
        /\ df[q].thread_id = M.thread_id
        /\ df[q].direction = "inbound"
        /\ df[q].timestamp # NaT /\ M.timestamp # NaT
        /\ df[q].timestamp > M.timestamp}

EarliestLaterInbound(M) ==
    {q \in LaterInbound(M) :
        \A r \in LaterInbound(M) : df[q].timestamp <= df[r].timestamp}

\* C1: every outbound record has got_response exactly when its thread holds
\* an inbound message with a strictly later timestamp; then
\* response_time_hours is the time from the record's message to the earliest
\* such message, in hours, and responder is the sender of an earliest such
\* message; otherwise both are None.
C1_GotResponseIffLaterInbound ==
    pc = "outbound" =>
        \A p \in DOMAIN outbound_performance :
            LET rec == outbound_performance[p]
                M == MessageWithId(rec.message_id)
            IN /\ rec.got_response <=> LaterInbound(M) # {}
               /\ rec.got_response =>
                    /\ rec.response_time_hours # None
                    /\ rec.responder # None
                    /\ \E q \in EarliestLaterInbound(M) :
                        /\ rec.response_time_hours[1].num * 3600 =
                              (df[q].timestamp - M.timestamp)
                                  * rec.response_time_hours[1].den
                        /\ rec.response_time_hours[1].den > 0
                    /\ \E q \in EarliestLaterInbound(M) :
                        rec.responder = Some(df[q].sender)
               /\ ~rec.got_response =>
                    rec.response_time_hours = None /\ rec.responder = None

\* C1's case: a record answered by two inbound messages at different times.
C1_Witness ==
    /\ pc = "outbound"
    /\ \E p \in DOMAIN outbound_performance :
        LET M == MessageWithId(outbound_performance[p].message_id)
        IN /\ outbound_performance[p].got_response
           /\ LaterInbound(M) # EarliestLaterInbound(M)

\* C2: after detect_replies_and_response_times every thread has exactly one
\* message with is_first_message, and it comes before every other message
\* of the thread: earlier timestamp, or the same timestamp and earlier row.
C2_OneFirstMessageTheEarliest ==
    Detected =>
        \A t \in Threads :
            RowsOfThread(t) # {} =>
                /\ Cardinality({q \in RowsOfThread(t) : df[q].is_first_message}) = 1
                /\ \A q \in RowsOfThread(t) :
                     df[q].is_first_message =>
                        \A r \in RowsOfThread(t) \ {q} : EarlierInThread(df[q], df[r])

\* C2's case: the first message ties on the timestamp with a later row of
\* the file, in a thread whose rows the file does not hold in time order.
C2_Witness ==
    /\ Detected
    /\ \E q, r \in DOMAIN df :
        /\ df[q].thread_id = df[r].thread_id
        /\ df[q].is_first_message
        /\ df[q].timestamp = df[r].timestamp /\ df[q].timestamp # NaT
        /\ df[q].index < df[r].index
        /\ \E s \in RowsOfThread(df[q].thread_id) :
              df[s].index < df[q].index /\ df[q].timestamp < df[s].timestamp

\* C3: after detect_replies_and_response_times the messages of a thread
\* carry the same is_outbound_initiated, which is true exactly when the
\* sender of the thread's first message is the owner.
C3_OutboundInitiatedPerThread ==
    Detected =>
        \A q, r \in DOMAIN df :
            (df[q].thread_id = df[r].thread_id /\ df[r].is_first_message) =>
                df[q].is_outbound_initiated = (df[r].sender = user_name)

\* C3's case: a thread the owner began, and a thread somebody else began
\* that holds a message of the owner.
C3_Witness ==
    /\ Detected
    /\ \E q \in DOMAIN df : df[q].is_outbound_initiated
    /\ \E q \in DOMAIN df : ~df[q].is_outbound_initiated /\ df[q].sender = user_name

\* The message right before m in thread order, as a set (empty for the first).
Predecessors(q) ==
    {r \in RowsOfThread(df[q].thread_id) \ {q} :
        /\ EarlierInThread(df[r], df[q])
        /\ \A s \in RowsOfThread(df[q].thread_id) \ {q, r} :
              EarlierInThread(df[s], df[q]) => EarlierInThread(df[s], df[r])}

\* C4: after detect_replies_and_response_times a message has is_reply, and
\* previous_sender recorded, exactly when it is not the first of its thread
\* and its sender differs from the sender of the message right before it in
\* thread order; a thread of one message holds no reply.
C4_ReplyIffSenderChanges ==
    Detected =>
        \A q \in DOMAIN df :
            /\ df[q].is_reply <=>
                  \E r \in Predecessors(q) : df[r].sender # df[q].sender
            /\ df[q].is_reply =>
                  \E r \in Predecessors(q) : df[q].previous_sender = Some(df[r].sender)
            /\ ~df[q].is_reply => df[q].previous_sender = None
            /\ RowsOfThread(df[q].thread_id) = {q} => ~df[q].is_reply

\* C4's case: a thread with a reply, with a message that follows one of the
\* same sender behind a message of another sender, and a thread of one message.
C4_Witness ==
    /\ Detected
    /\ \E q, r, s \in DOMAIN df :
        /\ df[q].thread_id = df[r].thread_id /\ df[r].thread_id = df[s].thread_id
        /\ q < r /\ r < s
        /\ df[r].is_reply /\ ~df[s].is_reply /\ df[q].sender # df[s].sender

\* C5: after detect_replies_and_response_times response_time_hours is
\* defined exactly on the messages with is_reply, equals the message's
\* timestamp minus the timestamp of the message right before it, in hours,
\* and is never negative; a thread [owner at t0, other party at t0 + 2 h]
\* gives the second message is_reply and response_time_hours = 2.
C5_ResponseTimeOnReplies ==
    Detected =>
        \A q \in DOMAIN df :
            /\ df[q].response_time_hours # None <=> df[q].is_reply
            /\ df[q].response_time_hours # None =>
                 LET h == df[q].response_time_hours[1]
                 IN /\ h.num >= 0 /\ h.den > 0
                    /\ \E r \in Predecessors(q) :
                          h.num * 3600 = (df[q].timestamp - df[r].timestamp) * h.den
            /\ \A r \in DOMAIN df :
                 ( /\ RowsOfThread(df[q].thread_id) = {q, r}
                   /\ df[r].sender = user_name /\ df[q].sender # user_name
                   /\ df[r].timestamp # NaT /\ df[q].timestamp # NaT
                   /\ df[q].timestamp - df[r].timestamp = 2 * 3600 )
                 => /\ df[q].is_reply
                    /\ df[q].response_time_hours # None
                    /\ df[q].response_time_hours[1].num =
                          2 * df[q].response_time_hours[1].den

-----------------------------------------------------------------------------
(* Properties of the sales analysis and the pattern clusterer *)

Clustered == pc \in {"clustering", "done"}

\* The groups find_similar_sales_patterns keeps: those of two members or more.
KeptGroups == {g \in DOMAIN all_groups : Len(all_groups[g]) >= 2}

SimilarRows(a, b) == Similar(Normalize(a.content), Normalize(b.content))

\* C6: in the merged table of the sales analysis every outbound record
\* carries the is_sales_message and the sales_type of the message whose
\* identifier is the record's message_id.
C6_SalesFlagsOfSameMessage ==
    Clustered =>
        \A p \in DOMAIN sales_with_performance :
            LET rec == sales_with_performance[p]
                M == MessageWithId(rec.message_id)
            IN /\ rec.is_sales_message = Some(M.is_sales_message)
               /\ rec.sales_type = Some(M.sales_type)

\* C7: every member of a pattern group but its seed has a normalized content
\* whose similarity to the seed's normalized content is at least the
\* similarity threshold.
C7_MembersSimilarToSeed ==
    Clustered =>
        \A g \in KeptGroups :
            \A b \in 2..Len(all_groups[g]) :
                SimilarRows(all_groups[g][1], all_groups[g][b])

\* C7 as the specification states it: any two members of a pattern group
\* have normalized contents whose similarity is at least the threshold.
C7_GroupsMutuallySimilar ==
    Clustered =>
        \A g \in KeptGroups :
            \A a, b \in DOMAIN all_groups[g] :
                SimilarRows(all_groups[g][a], all_groups[g][b])

\* C7's case: a returned group with two members that joined the seed and
\* are not similar to each other.
C7_Witness ==
    /\ pc = "done"
    /\ \E g \in KeptGroups :
        \E a, b \in 2..Len(all_groups[g]) :
            /\ SimilarRows(all_groups[g][1], all_groups[g][a])
            /\ SimilarRows(all_groups[g][1], all_groups[g][b])
            /\ ~SimilarRows(all_groups[g][a], all_groups[g][b])

C9_NoMessageInTwoGroups ==
    Clustered =>
        /\ \A g, h \in DOMAIN all_groups :
            \A a \in DOMAIN all_groups[g], b \in DOMAIN all_groups[h] :
                (g # h \/ a # b) =>
                    /\ all_groups[g][a].message_id # all_groups[h][b].message_id
                    /\ all_groups[g][a].idx # all_groups[h][b].idx
        /\ processed_indices =
              UNION {{all_groups[g][a].idx : a \in DOMAIN all_groups[g]} :
                        g \in DOMAIN all_groups}

\* C9's case: a member of one group that is similar to the seed of a later
\* group as well.
C9_Witness ==
    /\ pc = "done"
    /\ \E g, h \in DOMAIN all_groups :
        /\ g < h
        /\ \E a \in 2..Len(all_groups[g]) :
              SimilarRows(all_groups[h][1], all_groups[g][a])

\* Two records of the owner with the same text in different threads, both
\* texts sales messages, of which exactly one was answered.
OneOfTwoAnswered(r, s) ==
    /\ r.content = s.content
    /\ r.thread_id # s.thread_id
    /\ is_sales_message(r.content)
    /\ r.got_response /\ ~s.got_response

\* C10: every record the clusterer takes in, and so every member of every
\* group, has got_response; when the outbound records are two sales
\* messages of the same text in different threads and exactly one of them
\* was answered, no pattern is returned.
C10_OnlyAnsweredRecordsClustered ==
    Clustered =>
        /\ \A n \in DOMAIN sales_messages : sales_messages[n].got_response
        /\ \A g \in DOMAIN all_groups :
            \A a \in DOMAIN all_groups[g] : all_groups[g][a].got_response
        /\ \A p, q \in DOMAIN outbound_performance :
            ( /\ Len(outbound_performance) = 2
              /\ OneOfTwoAnswered(outbound_performance[p], outbound_performance[q]) )
            => message_groups = <<>>

\* C10's case: the two records of the scenario, the answered one taken in
\* by the clusterer, the run ended.
C10_Witness ==
    /\ pc = "done"
    /\ Len(outbound_performance) = 2
    /\ \E p, q \in DOMAIN outbound_performance :
        OneOfTwoAnswered(outbound_performance[p], outbound_performance[q])
    /\ Len(sales_messages) = 1
    /\ Len(all_groups) = 1

-----------------------------------------------------------------------------
(* Properties of the outbound table, the owner and the loader *)

\* The labels of the messages analyze_outbound_performance is to score.
SelfInitiatedOutbound ==
    {df[q].index : q \in {r \in DOMAIN df :
        df[r].direction = "outbound" /\ df[r].is_outbound_initiated}}

\* C11: the table analyze_outbound_performance returns holds exactly one
\* record for each message with direction outbound and
\* is_outbound_initiated, and no record for any other message.
C11_OneRecordPerSelfInitiatedOutbound ==
    pc = "outbound" =>
        /\ {outbound_performance[p].message_id : p \in DOMAIN outbound_performance}
              = SelfInitiatedOutbound
        /\ \A p, r \in DOMAIN outbound_performance :
              outbound_performance[p].message_id = outbound_performance[r].message_id
                  => p = r

\* C11's case: a table built from a frame that also holds an inbound
\* message and a message of the owner in a thread somebody else began.
C11_Witness ==
    /\ pc = "outbound"
    /\ outbound_performance # <<>>
    /\ \E q \in DOMAIN df : df[q].direction = "inbound"
    /\ \E q \in DOMAIN df :
          df[q].direction = "outbound" /\ ~df[q].is_outbound_initiated

\* C12: of two outbound records, one answered and one not, the answered
\* one has the strictly higher performance_score.
C12_GotResponseDominates ==
    pc = "scored" =>
        \A p, r \in DOMAIN outbound_performance :
            (outbound_performance[p].got_response
                /\ ~outbound_performance[r].got_response)
            => FractionLess(outbound_performance[r].performance_score,
                            outbound_performance[p].performance_score)

\* C13: the owner is a sender with the most messages sent, direction is
\* outbound exactly on the owner's messages, and the identity
\* detect_replies_and_response_times works with is that same owner: a
\* thread is outbound initiated exactly when its first message is outbound.
C13_OwnerInferredOnce ==
    pc \in {"directed", "detected", "insights", "outbound"} =>
        /\ SentBy(df, user_name) > 0
        /\ \A o \in Persons : SentBy(df, o) <= SentBy(df, user_name)
        /\ \A q \in DOMAIN df :
              df[q].direction = "outbound" <=> df[q].sender = user_name
        /\ Detected =>
              /\ FirstOutboundSender(df) = user_name
              /\ \A q, r \in DOMAIN df :
                    (df[q].thread_id = df[r].thread_id /\ df[r].is_first_message)
                    => (df[q].is_outbound_initiated <=> df[r].direction = "outbound")

\* C13's case: two senders with the most messages, and a frame whose first
\* row is not the owner's.
C13_Witness ==
    /\ Detected
    /\ \E o \in Persons : o # user_name /\ SentBy(df, o) = SentBy(df, user_name)
    /\ df[1].sender # user_name
    /\ \E q \in DOMAIN df : df[q].is_outbound_initiated

-----------------------------------------------------------------------------
(* Properties of the direction classifier and the aggregators *)

Directed == pc = "directed"

DirectionAndContact ==
    Directed =>
        /\ \A q \in DOMAIN df :
            /\ df[q].direction \in {"outbound", "inbound"}
            /\ df[q].direction = "outbound" <=> df[q].sender = user_name
            /\ df[q].sender = user_name => df[q].contact_person = df[q].recipient
            /\ df[q].sender # user_name => df[q].contact_person = df[q].sender
        /\ user_name \in Persons

\* C14: after classify_message_direction every message has one direction,
\* outbound exactly when its sender is the owner, and its contact_person is
\* its recipient when its sender is the owner and its sender otherwise; the
\* owner is the name the caller gave, when one was given.
C14_DirectionAndContact ==
    /\ []DirectionAndContact
    /\ [][user_name # "" => user_name' = user_name]_vars

\* C14's case: an owner given by the caller who is not a sender with the
\* most messages, with a message of the owner and a message of another.
C14_Witness ==
    /\ Directed
    /\ \E o \in Persons : SentBy(df, o) > SentBy(df, user_name)
    /\ \E q \in DOMAIN df : df[q].direction = "outbound"
                             /\ df[q].contact_person = "bob"
    /\ \E q \in DOMAIN df : df[q].direction = "inbound"

\* C15: the table load_messages_csv returns, and so the table of every
\* later stage, holds no message with an undefined timestamp.
C15_NoUndefinedTimestampLoaded ==
    pc # "start" => \A q \in DOMAIN df : df[q].timestamp # NaT

\* Whether the header holds the required column k, blanks around the name
\* and the case of its letters aside.
HeaderHolds(k) ==
    \E j \in DOMAIN columns : Upper(Strip(columns[j])) = required_columns[k]

\* C16: on a file whose header lacks one of the five required columns the
\* validation fails and main stops there: no row is loaded and no stage of
\* the analysis runs; and no stage runs before the validation has passed.
C16_ValidationFailsClosed ==
    /\ (\E k \in DOMAIN required_columns : ~HeaderHolds(k))
          => /\ pc \in {"start", "rejected"}
             /\ df = <<>> /\ user_name = "" /\ outbound_performance = <<>>
    /\ pc \in {"start", "rejected", "validated_only", "validated"}
          => df = <<>> /\ user_name = "" /\ outbound_performance = <<>>

\* C16's case: a file with rows whose header lacks the CONTENT column
\* alone has been rejected.
C16_Witness ==
    /\ pc = "rejected"
    /\ raw # <<>>
    /\ \A k \in DOMAIN required_columns :
          HeaderHolds(k) <=> required_columns[k] # ContentColumn

\* C17: the means and rates of the aggregators are defined on every input
\* and are the fallback 0 where there is nothing to average: the average
\* length of the inbound (of the outbound) messages is 0 when there is no
\* inbound (no outbound) message.
C17_AggregatesFallBackToZero ==
    pc = "insights" =>
        /\ analysis_results.inbound_avg_length # None
        /\ analysis_results.outbound_avg_length # None
        /\ analysis_results.inbound_message_count = 0 =>
              analysis_results.inbound_avg_length = Some([num |-> 0, den |-> 1])
        /\ analysis_results.outbound_message_count = 0 =>
              analysis_results.outbound_avg_length = Some([num |-> 0, den |-> 1])
        /\ conversation_stats.avg_messages_per_contact # None
        /\ conversation_stats.avg_outbound_per_contact # None

\* The messages of the frame with a contact, none for the NaN contact.
MessagesWith(contact) ==
    {q \in DOMAIN df : contact # NoRecipient /\ df[q].contact_person = contact}

\* C18: in the table of get_conversation_summary every contact's counts are
\* those of its messages in the frame, total_messages = outbound_messages +
\* inbound_messages, has_response holds exactly when inbound_messages > 0,
\* and response_rate is inbound_messages / outbound_messages, or 0 when
\* outbound_messages is 0.
C18_SummaryCountsAndRate ==
    pc = "insights" =>
        \A k \in DOMAIN conversation_summary :
            LET r == conversation_summary[k]
                mine == MessagesWith(r.contact_person)
            IN /\ r.outbound_messages =
                      Cardinality({q \in mine : df[q].sender = user_name})
               /\ r.inbound_messages =
                      Cardinality({q \in mine : df[q].sender # user_name})
               /\ r.total_messages = r.outbound_messages + r.inbound_messages
               /\ r.has_response <=> r.inbound_messages > 0
               /\ r.response_rate.den > 0
               /\ IF r.outbound_messages = 0 THEN r.response_rate.num = 0
                  ELSE r.response_rate.num * r.outbound_messages
                          = r.inbound_messages * r.response_rate.den

\* C18's case: a contact who answered the owner's message, and a contact
\* who wrote and was never written to.
C18_Witness ==
    /\ pc = "insights"
    /\ \E k \in DOMAIN conversation_summary :
          /\ conversation_summary[k].outbound_messages > 0
          /\ conversation_summary[k].inbound_messages > 0
    /\ \E k \in DOMAIN conversation_summary :
          /\ conversation_summary[k].outbound_messages = 0
          /\ conversation_summary[k].inbound_messages > 0

-----------------------------------------------------------------------------
(* Properties of the sales classifier and of the patterns returned *)

KeywordHits(content) == CountContained(Lower(content), sales_keywords)
PatternHits(content) == BusinessPatternMatches(Lower(content))
QuestionHits(content) == SalesQuestionMatches(Lower(content))

\* C19: classify_sales_messages marks every message of the frame, whatever
\* its direction and whoever began its thread, as sales exactly when
\* keywords + 2 * patterns + 1.5 * questions >= 2: one business pattern
\* alone is enough, one qualifying question alone is not, one keyword
\* alone is not.
C19_SalesScoreThreshold ==
    pc = "classified" =>
        \A q \in DOMAIN df :
            LET k == KeywordHits(df[q].content)
                p == PatternHits(df[q].content)
                n == QuestionHits(df[q].content)
            IN /\ df[q].is_sales_message <=> 2 * k + 4 * p + 3 * n >= 4
               /\ (k = 0 /\ p = 1 /\ n = 0) => df[q].is_sales_message
               /\ (k = 0 /\ p = 0 /\ n = 1) => ~df[q].is_sales_message
               /\ (k = 1 /\ p = 0 /\ n = 0) => ~df[q].is_sales_message

\* C19's case: an inbound message that one business pattern alone makes a
\* sales message, a message of the owner in a thread somebody else began
\* with one qualifying question alone, and a message with one keyword alone.
C19_Witness ==
    /\ pc = "classified"
    /\ \E q \in DOMAIN df :
          /\ df[q].direction = "inbound"
          /\ KeywordHits(df[q].content) = 0 /\ PatternHits(df[q].content) = 1
          /\ QuestionHits(df[q].content) = 0
          /\ df[q].is_sales_message
    /\ \E q \in DOMAIN df :
          /\ df[q].direction = "outbound" /\ ~df[q].is_outbound_initiated
          /\ KeywordHits(df[q].content) = 0 /\ PatternHits(df[q].content) = 0
          /\ QuestionHits(df[q].content) = 1
          /\ ~df[q].is_sales_message
    /\ \E q \in DOMAIN df :
          /\ KeywordHits(df[q].content) = 1 /\ PatternHits(df[q].content) = 0
          /\ QuestionHits(df[q].content) = 0
          /\ ~df[q].is_sales_message

\* The first min(3, n) members' contents of a group of n members.
FirstThreeContents(group) ==
    [k \in 1..(IF Len(group) < 3 THEN Len(group) ELSE 3) |-> group[k].content]

\* C20: the patterns are the groups of two members or more, one pattern
\* for each and none for a group of the seed alone; a pattern's
\* message_count is the number of its group's members and its
\* example_messages are the contents of the group's first min(3,
\* message_count) members in the order they joined.
C20_PatternsAreGroupsOfTwoOrMore ==
    Clustered =>
        /\ \A i \in DOMAIN message_groups : message_groups[i].message_count >= 2
        /\ \E f \in [DOMAIN message_groups -> KeptGroups] :
            /\ \A i, j \in DOMAIN message_groups : i # j => f[i] # f[j]
            /\ \A g \in KeptGroups : \E i \in DOMAIN message_groups : f[i] = g
            /\ \A i \in DOMAIN message_groups :
                /\ message_groups[i].message_count = Len(all_groups[f[i]])
                /\ message_groups[i].example_messages
                      = FirstThreeContents(all_groups[f[i]])

\* C20's case: a pattern of four members with three examples, after a
\* run that also built a group of the seed alone or a second pattern.
C20_Witness ==
    /\ pc = "done"
    /\ \E i \in DOMAIN message_groups :
          /\ message_groups[i].message_count > 3
          /\ Len(message_groups[i].example_messages) = 3

-----------------------------------------------------------------------------
(* Properties of the pipeline as a whole *)

\* What load_messages_csv returns for the file.
LoadedFrame == SortByThreadTimestamp(DropNa(ReadRows(raw)))

\* The frame of a second run of main() on the same file after its
\* thread reconstruction, the owner inferred as in the first run.
DetectedAgain == DetectedFrame(ClassifiedFrame(LoadedFrame, user_name))

AfterClassification ==
    pc \in {"directed", "detected", "insights", "outbound", "classified",
            "clustering", "done"}
AfterDetection ==
    pc \in {"detected", "insights", "outbound", "classified", "clustering",
            "done"}
AfterOutbound == pc \in {"outbound", "classified", "clustering", "done"}
AfterSales == pc \in {"classified", "clustering", "done"}

-----------------------------------------------------------------------------
(* Properties of the owner inference *)

\* C22: classify_message_direction called without an owner on a frame of
\* no rows raises (main() exits): it returns no frame, and no direction
\* is assigned.
C22_EmptyFrameFailsFast ==
    [][pc = "loaded" /\ user_name = "" /\ df = <<>>
           => pc' = "error" /\ df' = df /\ user_name' = ""]_vars

\* C22's case: the run stopped in classify_message_direction, on a file
\* of no rows and no owner given.
C22_Witness ==
    /\ pc = "error"
    /\ raw = <<>>
    /\ df = <<>>
    /\ user_name = ""

-----------------------------------------------------------------------------
(* Properties of find_top_performing_messages *)

\* C23: every message find_top_performing_messages returns is outbound
\* and is followed in its thread by at least one inbound message.
C23_TopMessagesGotReplies ==
    pc \in {"insights", "outbound"} =>
        \A id \in top_messages :
            /\ MessageWithId(id).direction = "outbound"
            /\ \E q \in RowsOfThread(MessageWithId(id).thread_id) :
                  /\ df[q].direction = "inbound"
                  /\ EarlierInThread(MessageWithId(id), df[q])

-----------------------------------------------------------------------------
(* Properties of get_sales_insights *)

\* C24: when non_sales_response_rate is 0, sales_vs_non_sales_lift is 0
\* and no recommendation holds the result of a division by that rate.
C24_NoDivisionByZeroRate ==
    pc = "finished" /\ sales_insights # <<>>
        /\ sales_insights[1].non_sales_response_rate.num = 0 =>
        /\ sales_insights[1].sales_vs_non_sales_lift = [num |-> 0, den |-> 1]
        /\ \A k \in DOMAIN sales_insights[1].top_sales_recommendations :
              LET percent == sales_insights[1].top_sales_recommendations[k].percent
              IN percent # None => percent[1].finite

-----------------------------------------------------------------------------
(* Properties of the message type *)

\* The rules a content satisfies, by their rank in the fixed order.
RulesSatisfied(content) ==
    {k \in 1..6 :
        \/ k = 1 /\ ThankYouRule(content)
        \/ k = 2 /\ GreetingRule(content)
        \/ k = 3 /\ QuestionRule(content)
        \/ k = 4 /\ FollowUpRule(content)
        \/ k = 5 /\ OpportunityRule(content)
        \/ k = 6 /\ ConnectionRule(content)}

TypeOfRank ==
    <<"thank_you", "greeting", "question", "follow_up", "opportunity_inquiry",
      "connection_request">>

\* C25: the message_type of an outbound record is the type of the rule of
\* highest precedence among those its content satisfies, in the order
\* thank_you, greeting, question, follow_up, opportunity_inquiry,
\* connection_request, and 'other' exactly when it satisfies none.
C25_MessageTypeIsFirstMatch ==
    pc = "outbound" =>
        \A p \in DOMAIN outbound_performance :
            LET rec == outbound_performance[p]
                hits == RulesSatisfied(rec.content)
            IN /\ (rec.message_type = "other") <=> (hits = {})
               /\ \A k \in hits :
                     (\A j \in hits : k <= j) => rec.message_type = TypeOfRank[k]

\* C25's case: a record whose content satisfies the greeting rule, the
\* question rule and the opportunity rule, beside one that satisfies none.
C25_Witness ==
    /\ pc = "outbound"
    /\ \E p, o \in DOMAIN outbound_performance :
          /\ RulesSatisfied(outbound_performance[p].content) = {2, 3, 5}
          /\ outbound_performance[p].message_type = "greeting"
          /\ outbound_performance[o].message_type = "other"

-----------------------------------------------------------------------------
(* Properties of the sales type *)

\* The categories whose words a content holds, by their rank in the
\* fixed order.
CategoriesMatched(content) ==
    {k \in 1..4 :
        \/ k = 1 /\ ContainsAny(Lower(content), JobSeekingWords)
        \/ k = 2 /\ ContainsAny(Lower(content), ServiceOfferingWords)
        \/ k = 3 /\ ContainsAny(Lower(content), PartnershipWords)
        \/ k = 4 /\ ContainsAny(Lower(content), MeetingRequestWords)}

CategoryOfRank ==
    <<"job_seeking", "service_offering", "partnership", "meeting_request">>

\* C26: after classify_sales_messages a message has sales_type 'non_sales'
\* exactly when is_sales_message is false; the sales_type of a sales
\* message is the category of highest precedence among those its content
\* matches, in the order job_seeking, service_offering, partnership,
\* meeting_request, and business_general when it matches none.
C26_SalesTypeIsFirstCategory ==
    pc = "classified" =>
        \A q \in DOMAIN df :
            LET matched == CategoriesMatched(df[q].content)
            IN /\ (df[q].sales_type = "non_sales") <=> ~df[q].is_sales_message
               /\ df[q].is_sales_message =>
                     /\ (df[q].sales_type = "business_general") <=> (matched = {})
                     /\ \A k \in matched :
                           (\A j \in matched : k <= j)
                               => df[q].sales_type = CategoryOfRank[k]

\* C26's case: a sales message of two categories, a message that is not
\* sales although it holds a job_seeking word, and a sales message whose
\* message_type is thank_you and whose sales_type is meeting_request.
C26_Witness ==
    /\ pc = "classified"
    /\ \E q, r \in DOMAIN df :
          /\ df[q].is_sales_message
          /\ CategoriesMatched(df[q].content) = {3, 4}
          /\ df[q].sales_type = "partnership"
          /\ ~df[r].is_sales_message
          /\ 1 \in CategoriesMatched(df[r].content)
    /\ \E p \in DOMAIN outbound_performance :
          /\ outbound_performance[p].message_type = "thank_you"
          /\ \E q \in DOMAIN df :
                /\ df[q].index = outbound_performance[p].message_id
                /\ df[q].sales_type = "meeting_request"

-----------------------------------------------------------------------------
(* Properties of the membership of the pattern groups *)

\* The identifiers of the rows the groups before group g hold.
TakenBefore(g) ==
    UNION {{all_groups[h][a].idx : a \in DOMAIN all_groups[h]} : h \in 1..(g - 1)}

\* The positions in sales_messages of the rows no group before g holds:
\* those not yet processed when the seed of group g is reached.
Unprocessed(g) ==
    {n \in DOMAIN sales_messages : sales_messages[n].idx \notin TakenBefore(g)}

\* The positions in sales_messages of the members of group g.
MembersOf(g) ==
    {n \in DOMAIN sales_messages :
        \E b \in DOMAIN all_groups[g] : all_groups[g][b] = sales_messages[n]}

\* C27: the seed of a group, its first member, is the earliest message
\* not yet processed; every other member is similar to the seed; and the
\* group holds, beside the seed, exactly the unprocessed messages that are
\* similar to the seed, whatever their similarity to the other members.
C27_MembershipBySeedOnly ==
    Clustered =>
        \A g \in DOMAIN all_groups :
            LET seed == all_groups[g][1]
            IN /\ \E n \in Unprocessed(g) :
                     /\ sales_messages[n] = seed
                     /\ \A m \in Unprocessed(g) : n <= m
               /\ \A b \in 2..Len(all_groups[g]) :
                     SimilarRows(seed, all_groups[g][b])
               /\ \A n \in Unprocessed(g) :
                     n \in MembersOf(g)
                         <=> \/ sales_messages[n] = seed
                             \/ SimilarRows(seed, sales_messages[n])

\* C27's case: a group with a member beside its seed, and a message not
\* yet processed that is similar to that member but not to the seed and is
\* left out of the group.
C27_Witness ==
    /\ pc = "done"
    /\ \E g \in DOMAIN all_groups :
          \E b \in 2..Len(all_groups[g]), n \in Unprocessed(g) \ MembersOf(g) :
              /\ SimilarRows(all_groups[g][b], sales_messages[n])
              /\ ~SimilarRows(all_groups[g][1], sales_messages[n])

-----------------------------------------------------------------------------
(* Properties of the messages left out of every pattern *)

\* The groups of the seed alone, which find_similar_sales_patterns discards.
DiscardedGroups == {g \in DOMAIN all_groups : Len(all_groups[g]) = 1}

\* C28: of two messages that are both left out of every reported pattern,
\* the earlier is not similar to the later; and a message is left out
\* only if none of the messages not yet processed when it became a seed
\* was similar to it.
C28_UnclusteredAreDissimilar ==
    pc = "done" =>
        /\ \A g, h \in DiscardedGroups :
              g < h => ~SimilarRows(all_groups[g][1], all_groups[h][1])
        /\ \A m, n \in DOMAIN sales_messages :
              (/\ m < n
               /\ \E g \in DiscardedGroups : all_groups[g][1] = sales_messages[m]
               /\ \E h \in DiscardedGroups : all_groups[h][1] = sales_messages[n])
                  => ~SimilarRows(sales_messages[m], sales_messages[n])
        /\ \A g \in DiscardedGroups :
              \A n \in Unprocessed(g) :
                  sales_messages[n] # all_groups[g][1]
                      => ~SimilarRows(all_groups[g][1], sales_messages[n])

\* C28's case: two messages were clustered and each was discarded as a
\* group of its seed alone.
C28_Witness ==
    /\ pc = "done"
    /\ \E g, h \in DiscardedGroups : g < h
    /\ message_groups = <<>>

-----------------------------------------------------------------------------
(* Properties of got_response within a thread *)

\* C29: of two outbound records of one thread, if the one whose timestamp
\* is later or the same has got_response, so has the other; and an
\* inbound message makes got_response true of every record of its thread
\* with an earlier timestamp.
C29_GotResponseMonotone ==
    pc = "outbound" =>
        /\ \A a, b \in DOMAIN outbound_performance :
              LET A == outbound_performance[a]
                  B == outbound_performance[b]
              IN (/\ A.thread_id = B.thread_id
                  /\ A.timestamp # NaT /\ B.timestamp # NaT
                  /\ B.timestamp >= A.timestamp
                  /\ B.got_response)
                     => A.got_response
        /\ \A q \in DOMAIN df, a \in DOMAIN outbound_performance :
              (/\ df[q].direction = "inbound"
               /\ df[q].thread_id = outbound_performance[a].thread_id
               /\ df[q].timestamp # NaT
               /\ outbound_performance[a].timestamp # NaT
               /\ outbound_performance[a].timestamp < df[q].timestamp)
                  => outbound_performance[a].got_response

\* C29's case: two records of one thread with different timestamps, both
\* with got_response, and one inbound message in the thread.
C29_Witness ==
    /\ pc = "outbound"
    /\ \E a, b \in DOMAIN outbound_performance :
          /\ outbound_performance[a].thread_id = outbound_performance[b].thread_id
          /\ outbound_performance[a].timestamp < outbound_performance[b].timestamp
          /\ outbound_performance[a].timestamp # NaT
          /\ outbound_performance[a].got_response
          /\ outbound_performance[b].got_response
          /\ Cardinality({q \in RowsOfThread(outbound_performance[a].thread_id) :
                             df[q].direction = "inbound"}) = 1

-----------------------------------------------------------------------------
(* Properties of analyze_response_patterns *)

\* C30: for a frame that is not empty, every contact of the summary is
\* counted either among those who responded or among those ghosted, and
\* none in both: the two counts add up to total_contacts.
C30_RespondedAndGhostedPartition ==
    pc = "insights" /\ df # <<>> =>
        /\ conversation_stats.contacts_who_responded
              + conversation_stats.contacts_who_ghosted
                  = conversation_stats.total_contacts
        /\ \A k \in DOMAIN conversation_summary :
              ~(/\ conversation_summary[k].has_response
                /\ \E g \in DOMAIN conversation_stats.ghosted_contacts :
                      conversation_stats.ghosted_contacts[g]
                          = conversation_summary[k].contact_person)

====
